---- MODULE Spec2Model ----
(***************************************************************************)
(* Model of the score-interpretation pipeline of the CELF-P3 dashboard:    *)
(* the retrieval engine (retrievalEngine.js), the insight assembler        *)
(* (insightAssembler.js) and the score calculator (scoreCalculator.js),    *)
(* and of the dashboard around it: the data parser (dataParser.js), the    *)
(* insights panel (InsightsPanel.jsx), the loading of the sheet and the    *)
(* memo of App (App.jsx) and the student switcher (StudentSwitcher.jsx).   *)
(* Spec is the pipeline, DashboardSpec the parser and the panel, AppSpec   *)
(* the loading of the sheet and the selection of a student.                *)
(*                                                                         *)
(* JavaScript values are records [k, v]: k is the kind ("num", "null",     *)
(* "undefined", "nan") and v the number of a "num".  z-scores are kept as  *)
(* exact fixed-point numbers in units of 1/ZDen (ZDen = the standard SD),  *)
(* so a rule bound of -1.0 is written -15 and a bound of 0.0 is written 0. *)
(* The text of a sheet's field is the sequence of its characters.          *)
(***************************************************************************)
EXTENDS Integers, Sequences, FiniteSets, TLC

VARIABLES interpretations, assessments, original, audienceUsed, pc, call,
          allRetrievedEntries, report, latestAssessment, firstReport,
          rawData, data, students, insights,
          panelAssessments, memo,
          loading, error, selectedStudent,
          storage, recentIds, isModalOpen, query, isOpen, highlightedIndex

vars == <<interpretations, assessments, original, audienceUsed, pc, call,
          allRetrievedEntries, report, latestAssessment, firstReport,
          rawData, data, students, insights,
          panelAssessments, memo,
          loading, error, selectedStudent,
          storage, recentIds, isModalOpen, query, isOpen, highlightedIndex>>

\* the state of App: loading, error and selectedStudent
appVars == <<loading, error, selectedStudent>>

\* the state of StudentSwitcher and of its search box: the item of
\* localStorage, recentIds, isModalOpen, query, isOpen, highlightedIndex
switcherVars == <<storage, recentIds, isModalOpen, query, isOpen, highlightedIndex>>

\* what the memos of App and of InsightsPanel have computed: the records
\* the panel took as latest, first and last, and the value of the memo of App
memoVars == <<panelAssessments, memo>>

\* the state of the dashboard: the parsed rows, the records made of them,
\* the student list and the list shown by the insights panel
dashboardVars == <<rawData, data, students, insights, memoVars, appVars,
                   switcherVars>>

(* ---------------------------- bounds ----------------------------------- *)

MaxRules == 2

MaxAssessments == 2

(* ------------------------- JavaScript values --------------------------- *)

Null == [k |-> "null", v |-> 0]

Undefined == [k |-> "undefined", v |-> 0]

NaN == [k |-> "nan", v |-> 0]

Num(n) == [k |-> "num", v |-> n]

\* isNaN(x): Number(undefined) is NaN, Number(null) is 0
isNaN(x) == x.k \in {"nan", "undefined"}

\* !x for a number, null, undefined or NaN
Falsy(x) == x.k \in {"null", "undefined", "nan"} \/ (x.k = "num" /\ x.v = 0)

\* a - b on numbers: null converts to 0, undefined and NaN give NaN
Minus(a, b) ==
  IF a.k \in {"undefined", "nan"} \/ b.k \in {"undefined", "nan"}
  THEN NaN
  ELSE Num(a.v - b.v)

(* --------------------------- score calculator -------------------------- *)

NORMATIVE_PARAMS ==
  [standard |-> [mean |-> 100, sd |-> 15], scaled |-> [mean |-> 10, sd |-> 3]]

\* fixed-point denominator of a z-score: one standard SD
ZDen == NORMATIVE_PARAMS.standard.sd

calculateZScore(score, type) ==
  IF score.k = "null" \/ score.k = "undefined" \/ isNaN(score)
  THEN Null
  ELSE LET params == IF type = "scaled" THEN NORMATIVE_PARAMS.scaled
                                         ELSE NORMATIVE_PARAMS.standard
       IN Num(((score.v - params.mean) * ZDen) \div params.sd)

TEST_NAMES ==
  [RLI |-> "Receptive Language Index", ELI |-> "Expressive Language Index"]

\* Object.keys(TEST_NAMES), in insertion order
TestCodes == <<"RLI", "ELI">>

Audiences == {"clinician", "family"}

(* ----------------------------- rule table ------------------------------ *)

Rule(type, abbr, aud, hasRange, minZ, maxZ, minD, maxD) ==
  [id |-> 0, test_type |-> type, test_abbreviation |-> abbr, audience |-> aud,
   has_range |-> hasRange, min_z |-> minZ, max_z |-> maxZ,
   min_z_diff |-> minD, max_z_diff |-> maxD]

\* entries a knowledge base can hold: a bound on one side or on both, no
\* score_range at all, an abbreviation that is not the one of the test
\* type, and comparison entries; bounds are in units of 1/ZDen
RulePool ==
  { Rule("Receptive Language Index", "RLI", "clinician", TRUE,
         Undefined, Num(-15), Undefined, Undefined),
    Rule("Receptive Language Index", "RLI", "family", TRUE,
         Num(-15), Num(0), Undefined, Undefined),
    Rule("Receptive Language Index", "ELI", "clinician", TRUE,
         Undefined, Num(-15), Undefined, Undefined),
    Rule("Expressive Language Index", "ELI", "clinician", FALSE,
         Undefined, Undefined, Undefined, Undefined),
    Rule("Composite Comparison", "RLI", "clinician", TRUE,
         Undefined, Undefined, Undefined, Num(0)),
    Rule("Composite Comparison", "COMP", "family", TRUE,
         Undefined, Undefined, Num(0), Undefined) }

SeqsUpTo(S, n) == UNION { [1..m -> S] : m \in 0..n }

\* the i-th entry of the table is the object with identity i
Tables ==
  { [i \in 1..Len(t) |-> [t[i] EXCEPT !.id = i]] : t \in SeqsUpTo(RulePool, MaxRules) }

(* ------------------------------ matcher -------------------------------- *)

matchesScoreRange(zScore, entry) ==
  IF zScore.k = "null" \/ zScore.k = "undefined" \/ isNaN(zScore) THEN FALSE
  ELSE IF entry.min_z.k # "undefined" /\ zScore.v < entry.min_z.v THEN FALSE
  ELSE IF entry.max_z.k # "undefined" /\ zScore.v > entry.max_z.v THEN FALSE
  ELSE TRUE

\* matchesZDiffRange with exclusive bounds
matchesZDiffRange_Exclusive(zDiff, entry) ==
  IF zDiff.k = "null" \/ zDiff.k = "undefined" \/ isNaN(zDiff) THEN FALSE
  ELSE IF entry.min_z_diff.k # "undefined" /\ zDiff.v <= entry.min_z_diff.v THEN FALSE
  ELSE IF entry.max_z_diff.k # "undefined" /\ zDiff.v >= entry.max_z_diff.v THEN FALSE
  ELSE TRUE

\* matchesZDiffRange without its first guard: every comparison with NaN is
\* false, so no bound rejects
matchesZDiffRange_NoGuard(zDiff, entry) ==
  IF zDiff.k # "num" THEN TRUE
  ELSE IF entry.min_z_diff.k # "undefined" /\ zDiff.v < entry.min_z_diff.v THEN FALSE
  ELSE IF entry.max_z_diff.k # "undefined" /\ zDiff.v > entry.max_z_diff.v THEN FALSE
  ELSE TRUE

matchesZDiffRange(zDiff, entry) ==
  IF zDiff.k = "null" \/ zDiff.k = "undefined" \/ isNaN(zDiff) THEN FALSE
  ELSE IF entry.min_z_diff.k # "undefined" /\ zDiff.v < entry.min_z_diff.v THEN FALSE
  ELSE IF entry.max_z_diff.k # "undefined" /\ zDiff.v > entry.max_z_diff.v THEN FALSE
  ELSE TRUE

\* the callback below without its audience check
testEntryMatches_AnyAudience(entry, testName, testAbbreviation, zScore, audience) ==
  LET testMatch == \/ entry.test_type = testName
                   \/ entry.test_abbreviation = testAbbreviation
                   \/ entry.test_type = "Composite Comparison"
  IN IF ~testMatch THEN FALSE
     ELSE IF entry.has_range
          THEN IF entry.test_type = "Composite Comparison" THEN FALSE
               ELSE matchesScoreRange(zScore, entry)
          ELSE FALSE

\* the callback of interpretations.filter in retrieveTestInterpretations
testEntryMatches(entry, testName, testAbbreviation, zScore, audience) ==
  LET testMatch == \/ entry.test_type = testName
                   \/ entry.test_abbreviation = testAbbreviation
                   \/ entry.test_type = "Composite Comparison"
  IN IF ~testMatch THEN FALSE
     ELSE IF entry.audience # audience THEN FALSE
     ELSE IF entry.has_range
          THEN IF entry.test_type = "Composite Comparison" THEN FALSE
               ELSE matchesScoreRange(zScore, entry)
          ELSE FALSE

retrieveTestInterpretations(testName, testAbbreviation, standardScore, audience) ==
  IF Falsy(standardScore) \/ isNaN(standardScore) THEN <<>>
  ELSE LET zScore == calculateZScore(standardScore, "standard")
           keep(entry) ==
             testEntryMatches(entry, testName, testAbbreviation, zScore, audience)
       IN SelectSeq(interpretations, keep)

\* the callback of interpretations.filter in retrieveCompositeComparisons
comparisonEntryMatches(entry, zDiff, audience) ==
  IF entry.test_type # "Composite Comparison" THEN FALSE
  ELSE IF entry.audience # audience THEN FALSE
  ELSE IF entry.has_range THEN matchesZDiffRange(zDiff, entry)
  ELSE FALSE

retrieveCompositeComparisons(receptiveZScore, expressiveZScore, audience) ==
  IF receptiveZScore.k = "null" \/ expressiveZScore.k = "null" THEN <<>>
  ELSE LET zDiff == Minus(receptiveZScore, expressiveZScore)
           keep(entry) == comparisonEntryMatches(entry, zDiff, audience)
       IN SelectSeq(interpretations, keep)

(* ----------------------------- assessments ----------------------------- *)

\* standard scores a parsed record holds for a test code; Null stands for a
\* code with no standard score
RLIScores == {Null, Num(0), Num(85)}

ELIScores == {Null, Num(85)}

TestMaps == { [RLI |-> r, ELI |-> e] : r \in RLIScores, e \in ELIScores }

\* assessment dates, as numbers of days
Dates == {1, 2}

AssessmentShapes == [id : {0}, date : Dates, tests : TestMaps]

\* the i-th element of the caller's array is the object with identity i
AssessmentArrays ==
  { [i \in 1..Len(a) |-> [a[i] EXCEPT !.id = i]] :
      a \in SeqsUpTo(AssessmentShapes, MaxAssessments) }

\* latestAssessment.tests[testKey].standardScore, undefined for a missing key
standardScoreOf(assessment, testKey) ==
  IF testKey \in DOMAIN assessment.tests THEN assessment.tests[testKey]
  ELSE Undefined

\* (a, b) => new Date(b.date) - new Date(a.date)
compareDates(a, b) == b.date - a.date

\* an unstable placement: x goes before the elements it ties with
insertionPoint_BeforeTies(s, x, i) ==
  LET stops == { p \in i..Len(s) : compareDates(s[p], x) >= 0 }
  IN IF stops = {} THEN Len(s) + 1
     ELSE CHOOSE p \in stops : \A q \in stops : p <= q

\* position at which a stable sort places x in the sorted array s: before
\* the first element it must precede, after every element it ties with
RECURSIVE insertionPoint(_, _, _)
insertionPoint(s, x, i) ==
  IF i > Len(s) THEN i
  ELSE IF compareDates(s[i], x) > 0 THEN i
  ELSE insertionPoint(s, x, i + 1)

\* a sort that is not stable: an element goes before the elements it ties
\* with
RECURSIVE sort_TiesReversed(_)
sort_TiesReversed(arr) ==
  IF arr = <<>> THEN <<>>
  ELSE LET front == sort_TiesReversed(SubSeq(arr, 1, Len(arr) - 1))
           x == arr[Len(arr)]
           stops == { q \in 1..Len(front) : compareDates(front[q], x) >= 0 }
           p == IF stops = {} THEN Len(front) + 1
                ELSE CHOOSE q \in stops : \A r \in stops : q <= r
       IN SubSeq(front, 1, p - 1) \o <<x>> \o SubSeq(front, p, Len(front))

\* Array.prototype.sort with the comparator above (stable, ES2019)
RECURSIVE sort(_)
sort(arr) ==
  IF arr = <<>> THEN <<>>
  ELSE LET front == sort(SubSeq(arr, 1, Len(arr) - 1))
           x == arr[Len(arr)]
           p == insertionPoint(front, x, 1)
       IN SubSeq(front, 1, p - 1) \o <<x>> \o SubSeq(front, p, Len(front))

(* ------------------------- retrieveAllInterpretations ------------------ *)

\* the for-loop over Object.entries(latestAssessment.tests), from code i on
RECURSIVE retrieveForTests(_, _, _)
retrieveForTests(latest, audience, i) ==
  IF i > Len(TestCodes) THEN <<>>
  ELSE LET testKey == TestCodes[i]
           standardScore == latest.tests[testKey]
           matches ==
             IF Falsy(standardScore) THEN <<>>
             ELSE retrieveTestInterpretations(TEST_NAMES[testKey], testKey,
                                              standardScore, audience)
       IN matches \o retrieveForTests(latest, audience, i + 1)

\* the RLI/ELI block of retrieveAllInterpretations
retrieveForComparison(latest, audience) ==
  LET rli == standardScoreOf(latest, "RLI")
      eli == standardScoreOf(latest, "ELI")
  IN IF ~Falsy(rli) /\ ~Falsy(eli)
     THEN retrieveCompositeComparisons(calculateZScore(rli, "standard"),
                                       calculateZScore(eli, "standard"),
                                       audience)
     ELSE <<>>

\* without the guard for an empty array, answering with the audience's rules
retrieveAllInterpretations_NoEmptyGuard(sorted, audience) ==
  IF sorted = <<>>
  THEN LET keep(entry) == entry.audience = audience
       IN SelectSeq(interpretations, keep)
  ELSE retrieveForTests(sorted[1], audience, 1)
         \o retrieveForComparison(sorted[1], audience)

\* the value returned for the array once sorted; [] for an empty array
retrieveAllInterpretations(sorted, audience) ==
  IF sorted = <<>> THEN <<>>
  ELSE retrieveForTests(sorted[1], audience, 1)
         \o retrieveForComparison(sorted[1], audience)

(* --------------------------- insight assembler ------------------------- *)

\* the bands with a boundary value in the upper bucket
getNormativeBand_Strict(zScore) ==
  IF zScore.k = "null" \/ zScore.k = "undefined" \/ isNaN(zScore) THEN "No Data"
  ELSE IF zScore.v < -2 * ZDen THEN "Significantly Below Average"
  ELSE IF zScore.v < -1 * ZDen THEN "Below Average"
  ELSE IF zScore.v < 1 * ZDen THEN "Average"
  ELSE IF zScore.v < 2 * ZDen THEN "Above Average"
  ELSE "Significantly Above Average"

getNormativeBand(zScore) ==
  IF zScore.k = "null" \/ zScore.k = "undefined" \/ isNaN(zScore) THEN "No Data"
  ELSE IF zScore.v <= -2 * ZDen THEN "Significantly Below Average"
  ELSE IF zScore.v <= -1 * ZDen THEN "Below Average"
  ELSE IF zScore.v <= 1 * ZDen THEN "Average"
  ELSE IF zScore.v <= 2 * ZDen THEN "Above Average"
  ELSE "Significantly Above Average"

\* a lookup that never finds the existing element
findInsight_Never(testInsights, testKey, i) == 0

\* index of the first element of testInsights for testKey, 0 if none
RECURSIVE findInsight(_, _, _)
findInsight(testInsights, testKey, i) ==
  IF i > Len(testInsights) THEN 0
  ELSE IF testInsights[i].testAbbreviation = testKey THEN i
  ELSE findInsight(testInsights, testKey, i + 1)

\* one iteration of the grouping loop for an entry that is no comparison
groupEntry(testInsights, entry, latest) ==
  LET testKey == entry.test_abbreviation
      score == standardScoreOf(latest, testKey)
  IN IF Falsy(score) THEN testInsights
     ELSE LET found == findInsight(testInsights, testKey, 1)
              withEntry ==
                IF found # 0 THEN testInsights
                ELSE Append(testInsights,
                       [test |-> entry.test_type,
                        testAbbreviation |-> testKey,
                        score |-> score,
                        normativeBand |->
                          getNormativeBand(calculateZScore(score, "standard")),
                        insights |-> <<>>,
                        retrievedCount |-> 0])
              at == IF found # 0 THEN found ELSE Len(withEntry)
          IN [withEntry EXCEPT
                ![at].insights = Append(@, entry.id),
                ![at].retrievedCount = @ + 1]

\* the grouping loop over allRetrievedEntries[i..]
RECURSIVE groupEntries(_, _, _, _)
groupEntries(testInsights, entries, latest, i) ==
  IF i > Len(entries) THEN testInsights
  ELSE IF entries[i].test_type = "Composite Comparison"
       THEN groupEntries(testInsights, entries, latest, i + 1)
       ELSE groupEntries(groupEntry(testInsights, entries[i], latest),
                         entries, latest, i + 1)

isComparisonEntry(entry) == entry.test_type = "Composite Comparison"

entryId(entries) == [i \in 1..Len(entries) |-> entries[i].id]

\* one comparison object per retrieved entry instead of one for all
assembleComparisonInsights_PerEntry(receptiveScore, expressiveScore, retrievedEntries) ==
  [i \in 1..Len(retrievedEntries) |->
     [type |-> "composite_comparison",
      receptiveScore |-> receptiveScore,
      expressiveScore |-> expressiveScore,
      zDifference |-> Minus(calculateZScore(receptiveScore, "standard"),
                            calculateZScore(expressiveScore, "standard")),
      insights |-> <<retrievedEntries[i].id>>,
      retrievedCount |-> 1]]

assembleComparisonInsights(receptiveScore, expressiveScore, retrievedEntries) ==
  IF retrievedEntries = <<>> THEN <<>>
  ELSE << [type |-> "composite_comparison",
           receptiveScore |-> receptiveScore,
           expressiveScore |-> expressiveScore,
           zDifference |-> Minus(calculateZScore(receptiveScore, "standard"),
                                 calculateZScore(expressiveScore, "standard")),
           insights |-> entryId(retrievedEntries),
           retrievedCount |-> Len(retrievedEntries)] >>

\* the comparisons array built at the end of assembleCompleteReport
assembleComparisons(entries, latest) ==
  LET comparisonEntries == SelectSeq(entries, isComparisonEntry)
      rli == standardScoreOf(latest, "RLI")
      eli == standardScoreOf(latest, "ELI")
  IN IF Len(comparisonEntries) > 0 /\ ~Falsy(rli) /\ ~Falsy(eli)
     THEN assembleComparisonInsights(rli, eli, comparisonEntries)
     ELSE <<>>

\* the report returned for the array as sorted by assembleCompleteReport
assembleCompleteReport(sorted, entries, audience) ==
  IF sorted = <<>> \/ entries = <<>>
  THEN [audience |-> audience, assessmentDate |-> Undefined,
        testInsights |-> <<>>, comparisons |-> <<>>, totalRetrieved |-> 0]
  ELSE [audience |-> audience, assessmentDate |-> Num(sorted[1].date),
        testInsights |-> groupEntries(<<>>, entries, sorted[1], 1),
        comparisons |-> assembleComparisons(entries, sorted[1]),
        totalRetrieved |-> Len(entries)]

(* ------------------------------ behaviour ------------------------------ *)

NoCall == [fn |-> "none"]

NoReport == [audience |-> "none", assessmentDate |-> Undefined,
             testInsights |-> <<>>, comparisons |-> <<>>, totalRetrieved |-> 0]

TestNames == {TEST_NAMES[c] : c \in DOMAIN TEST_NAMES}

\* no memo of InsightsPanel has run: no record was taken as latest, first
\* or last
NoPanel == [latest |-> 0, firstAssessment |-> 0, lastAssessment |-> 0]

\* the value of the memo of App while no student is selected or no data is
\* there
NoMemo == [studentAssessments |-> <<>>, tests |-> <<>>, insights |-> <<>>,
           kpiMetrics |-> Null]

\* App and StudentSwitcher before the sheet is loaded: the useState calls of
\* App, of StudentSearchDropdown, and an empty localStorage
AppAtStart ==
  /\ panelAssessments = NoPanel
  /\ memo = NoMemo
  /\ loading = TRUE
  /\ error = Null
  /\ selectedStudent = Null
  /\ storage = Null
  /\ recentIds = <<>>
  /\ isModalOpen = FALSE
  /\ query = <<>>
  /\ isOpen = FALSE
  /\ highlightedIndex = 0

\* arguments of a direct matcher call
QueryScores == {Null, Undefined, NaN, Num(0), Num(70), Num(85), Num(100)}

QueryZScores == {Null, Undefined, NaN, Num(-15), Num(0), Num(15)}

Init ==
  /\ interpretations \in Tables
  /\ assessments = <<>>
  /\ original = <<>>
  /\ audienceUsed = "none"
  /\ pc = "idle"
  /\ call = NoCall
  /\ allRetrievedEntries = <<>>
  /\ report = NoReport
  /\ latestAssessment = [retrieval |-> 0, assembly |-> 0]
  /\ firstReport = NoReport
  /\ rawData = <<>>
  /\ data = <<>>
  /\ students = <<>>
  /\ insights = <<>>
  /\ AppAtStart

\* a caller invokes retrieveTestInterpretations
QueryTest ==
  /\ pc = "idle"
  /\ \E testName \in TestNames, testAbbreviation \in DOMAIN TEST_NAMES,
        standardScore \in QueryScores, audience \in Audiences :
       call' = [fn |-> "retrieveTestInterpretations",
                testName |-> testName,
                testAbbreviation |-> testAbbreviation,
                standardScore |-> standardScore,
                audience |-> audience,
                result |-> retrieveTestInterpretations(
                             testName, testAbbreviation, standardScore, audience)]
  /\ pc' = "queried"
  /\ UNCHANGED <<interpretations, assessments, original, audienceUsed,
                 allRetrievedEntries, report, latestAssessment, firstReport,
                 dashboardVars>>

\* a caller invokes retrieveCompositeComparisons
QueryComparison ==
  /\ pc = "idle"
  /\ \E receptiveZScore \in QueryZScores, expressiveZScore \in QueryZScores,
        audience \in Audiences :
       call' = [fn |-> "retrieveCompositeComparisons",
                receptiveZScore |-> receptiveZScore,
                expressiveZScore |-> expressiveZScore,
                audience |-> audience,
                result |-> retrieveCompositeComparisons(
                             receptiveZScore, expressiveZScore, audience)]
  /\ pc' = "queried"
  /\ UNCHANGED <<interpretations, assessments, original, audienceUsed,
                 allRetrievedEntries, report, latestAssessment, firstReport,
                 dashboardVars>>

\* ClinicalInsightAssistant calls retrieveAllInterpretations on the array it
\* was given; the array is sorted in place unless it is empty
RetrieveAll ==
  /\ pc = "idle"
  /\ \E arr \in AssessmentArrays, audience \in Audiences :
       /\ original' = arr
       /\ audienceUsed' = audience
       /\ assessments' = sort(arr)
       /\ allRetrievedEntries' = retrieveAllInterpretations(sort(arr), audience)
       /\ latestAssessment' =
            [latestAssessment EXCEPT
               !.retrieval = IF arr = <<>> THEN 0 ELSE sort(arr)[1].id]
  /\ pc' = "retrieved"
  /\ UNCHANGED <<interpretations, call, report, firstReport, dashboardVars>>

\* the component renders again with the same props: its memo runs
\* retrieveAllInterpretations on the array the first run has sorted
RetrieveAgain ==
  /\ pc = "assembled"
  /\ firstReport = NoReport
  /\ firstReport' = report
  /\ assessments' = sort(assessments)
  /\ allRetrievedEntries' =
       retrieveAllInterpretations(sort(assessments), audienceUsed)
  /\ latestAssessment' =
       [latestAssessment EXCEPT
          !.retrieval = IF assessments = <<>> THEN 0 ELSE sort(assessments)[1].id]
  /\ pc' = "retrieved"
  /\ UNCHANGED <<interpretations, original, audienceUsed, call, report,
                 dashboardVars>>

\* ... and passes the same array and the retrieved entries to
\* assembleCompleteReport, which sorts again unless it returns early
Assemble ==
  /\ pc = "retrieved"
  /\ LET early == assessments = <<>> \/ allRetrievedEntries = <<>>
         sorted == IF early THEN assessments ELSE sort(assessments)
     IN /\ assessments' = sorted
        /\ report' = assembleCompleteReport(sorted, allRetrievedEntries, audienceUsed)
        /\ latestAssessment' =
             [latestAssessment EXCEPT
                !.assembly = IF early THEN 0 ELSE sorted[1].id]
  /\ pc' = "assembled"
  /\ UNCHANGED <<interpretations, original, audienceUsed, call,
                 allRetrievedEntries, firstReport, dashboardVars>>

Next == QueryTest \/ QueryComparison \/ RetrieveAll \/ Assemble \/ RetrieveAgain

Spec == Init /\ [][Next]_vars

(* ------------------------------ strings -------------------------------- *)

\* a JavaScript string is the sequence of its characters
Str(chars) == [k |-> "str", v |-> chars]

Digits == <<"0", "1", "2", "3", "4", "5", "6", "7", "8", "9">>

isDigit(c) == \E d \in 1..Len(Digits) : Digits[d] = c

\* the value of a digit character
digitValue(c) == (CHOOSE d \in 1..Len(Digits) : Digits[d] = c) - 1

\* the number written by a sequence of digits
RECURSIVE toNumber(_)
toNumber(ds) ==
  IF ds = <<>> THEN 0
  ELSE 10 * toNumber(SubSeq(ds, 1, Len(ds) - 1)) + digitValue(ds[Len(ds)])

\* the strings of the model hold no white space other than the space
isSpace(c) == c = " "

\* String.prototype.trim
trim(chars) ==
  LET inked == { i \in 1..Len(chars) : ~isSpace(chars[i]) }
  IN IF inked = {} THEN <<>>
     ELSE SubSeq(chars,
                 CHOOSE i \in inked : \A j \in inked : i <= j,
                 CHOOSE i \in inked : \A j \in inked : j <= i)

\* length of the longest prefix of chars made of digits
digitRun(chars) ==
  LET others == { i \in 1..Len(chars) : ~isDigit(chars[i]) }
  IN IF others = {} THEN Len(chars)
     ELSE (CHOOSE i \in others : \A j \in others : i <= j) - 1

\* parseFloat on a string without '.', 'e', 'E' and 'I': leading white space
\* is skipped, a sign is read, then the longest run of digits; NaN if there
\* is no digit
parseFloat(chars) ==
  LET inked == { i \in 1..Len(chars) : ~isSpace(chars[i]) }
      rest == IF inked = {} THEN <<>>
              ELSE SubSeq(chars, CHOOSE i \in inked : \A j \in inked : i <= j,
                          Len(chars))
      signed == rest # <<>> /\ rest[1] \in {"+", "-"}
      body == IF signed THEN Tail(rest) ELSE rest
      n == digitRun(body)
  IN IF n = 0 THEN NaN
     ELSE IF signed /\ rest[1] = "-" THEN Num(0 - toNumber(SubSeq(body, 1, n)))
     ELSE Num(toNumber(SubSeq(body, 1, n)))

(* ----------------------------- data parser ----------------------------- *)

\* TEST_NAMES[prefix] || prefix
testNameOf(prefix) ==
  IF prefix \in DOMAIN TEST_NAMES THEN TEST_NAMES[prefix] ELSE prefix

\* chars[i..i+n-1] exists and is made of digits
digitsAt(chars, i, n) ==
  /\ i >= 1
  /\ i + n - 1 <= Len(chars)
  /\ \A j \in i..(i + n - 1) : isDigit(chars[j])

charAt(chars, i, c) == i >= 1 /\ i <= Len(chars) /\ chars[i] = c

\* new Date(year, monthIndex, day): a year from 0 to 99 is counted from 1900;
\* the fields are kept as the constructor receives them
newDate(year, monthIndex, day) ==
  [k |-> "date", year |-> IF year \in 0..99 THEN 1900 + year ELSE year,
   monthIndex |-> monthIndex, day |-> day]

\* new Date(): the time of the call
now == [k |-> "date", year |-> 0, monthIndex |-> 0, day |-> 0]

\* the match of /(\d{1,2})\/(\d{1,2})\/(\d{4})/ that starts at i with groups
\* of a and b digits
matchesMDY(chars, i, a, b) ==
  /\ digitsAt(chars, i, a)
  /\ charAt(chars, i + a, "/")
  /\ digitsAt(chars, i + a + 1, b)
  /\ charAt(chars, i + a + b + 1, "/")
  /\ digitsAt(chars, i + a + b + 2, 4)

\* the match of /(\d{4})-(\d{1,2})-(\d{1,2})/ that starts at i with groups
\* of a and b digits
matchesYMD(chars, i, a, b) ==
  /\ digitsAt(chars, i, 4)
  /\ charAt(chars, i + 4, "-")
  /\ digitsAt(chars, i + 5, a)
  /\ charAt(chars, i + 5 + a, "-")
  /\ digitsAt(chars, i + 6 + a, b)

\* the leftmost match, its groups as long as they can be
firstMatch(M) ==
  CHOOSE m \in M :
    \A o \in M : \/ m[1] < o[1]
                 \/ m[1] = o[1] /\ m[2] > o[2]
                 \/ m[1] = o[1] /\ m[2] = o[2] /\ m[3] >= o[3]

parseDate(dateStr) ==
  IF dateStr.k = "undefined" \/ dateStr.v = <<>> \/ trim(dateStr.v) = <<>>
  THEN Null
  ELSE LET chars == dateStr.v
           places == (1..Len(chars)) \X (1..2) \X (1..2)
           mdy == { m \in places : matchesMDY(chars, m[1], m[2], m[3]) }
           ymd == { m \in places : matchesYMD(chars, m[1], m[2], m[3]) }
       IN IF mdy # {}
          THEN LET m == firstMatch(mdy)
                   month == toNumber(SubSeq(chars, m[1], m[1] + m[2] - 1))
                   day == toNumber(SubSeq(chars, m[1] + m[2] + 1,
                                          m[1] + m[2] + m[3]))
                   year == toNumber(SubSeq(chars, m[1] + m[2] + m[3] + 2,
                                           m[1] + m[2] + m[3] + 5))
               IN newDate(year, month - 1, day)
          ELSE IF ymd # {}
          THEN LET m == firstMatch(ymd)
                   year == toNumber(SubSeq(chars, m[1], m[1] + 3))
                   month == toNumber(SubSeq(chars, m[1] + 5, m[1] + 4 + m[2]))
                   day == toNumber(SubSeq(chars, m[1] + 6 + m[2],
                                          m[1] + 5 + m[2] + m[3]))
               IN newDate(year, month - 1, day)
          ELSE Null

\* parseNumber without the test for the literal '-1'
parseNumber_NoSentinel(value) ==
  IF \/ value.k = "undefined"
     \/ value.v = <<>>
     \/ value.v = <<"#", "N", "/", "A">>
  THEN Null
  ELSE LET num == parseFloat(value.v)
       IN IF isNaN(num) THEN Null ELSE num

\* !value holds of undefined and of the empty string
parseNumber(value) ==
  IF \/ value.k = "undefined"
     \/ value.v = <<>>
     \/ value.v = <<"#", "N", "/", "A">>
     \/ value.v = <<"-", "1">>
  THEN Null
  ELSE LET num == parseFloat(value.v)
       IN IF isNaN(num) THEN Null ELSE num

\* the four columns of a test prefix in a row
Cells(standardScore, scaledScore, pctRank, rawScore) ==
  [StandardScore |-> standardScore, ScaledScore |-> scaledScore,
   PctRank |-> pctRank, RawScore |-> rawScore]

extractTestData(row, prefix) ==
  LET standardScore == parseNumber(row.cells[prefix].StandardScore)
      scaledScore == parseNumber(row.cells[prefix].ScaledScore)
      percentile == parseNumber(row.cells[prefix].PctRank)
      rawScore == parseNumber(row.cells[prefix].RawScore)
  IN IF standardScore.k = "null" /\ scaledScore.k = "null" THEN Null
     ELSE [k |-> "test", key |-> prefix,
           standardScore |-> standardScore, scaledScore |-> scaledScore,
           percentile |-> percentile, rawScore |-> rawScore,
           testName |-> testNameOf(prefix)]

\* the loop over testPrefixes from prefix i on: the entries of the tests
\* object, in insertion order
RECURSIVE extractTests(_, _)
extractTests(row, i) ==
  IF i > Len(TestCodes) THEN <<>>
  ELSE LET testData == extractTestData(row, TestCodes[i])
       IN (IF testData.k = "null" THEN <<>> ELSE <<testData>>)
            \o extractTests(row, i + 1)

\* the test without its comparison with the literal '#N/A'
skipsRow_NoSentinel(row) ==
  \/ row.LT_Id.k = "undefined"
  \/ row.LT_Id.v = <<>>
  \/ trim(row.LT_Id.v) = <<>>

\* the test that makes the loop skip a row
skipsRow(row) ==
  \/ row.LT_Id.k = "undefined"
  \/ row.LT_Id.v = <<>>
  \/ trim(row.LT_Id.v) = <<>>
  \/ row.LT_Id.v = <<"#", "N", "/", "A">>

\* the body of the loop over rawData for a row that keeps every row with an
\* id, with or without a test
processRow_KeepEmpty(row, index) ==
  IF skipsRow(row) THEN <<>>
  ELSE LET studentId == trim(row.LT_Id.v)
           initials == IF row.Child_Initials.k = "undefined" THEN <<>>
                       ELSE trim(row.Child_Initials.v)
           date == parseDate(row.AssessmentDate)
       IN << [row |-> index,
              studentId |-> studentId,
              studentName |-> IF initials = <<>>
                              THEN <<"S", "t", "u", "d", "e", "n", "t", " ">>
                                     \o studentId
                              ELSE initials,
              date |-> IF date.k = "null" THEN now ELSE date,
              age |-> parseNumber(row.Age),
              tests |-> extractTests(row, 1)] >>

\* the body of the loop over rawData: the records pushed for one row, the
\* index-th of the input
processRow(row, index) ==
  IF skipsRow(row) THEN <<>>
  ELSE LET studentId == trim(row.LT_Id.v)
           initials == IF row.Child_Initials.k = "undefined" THEN <<>>
                       ELSE trim(row.Child_Initials.v)
           date == parseDate(row.AssessmentDate)
           tests == extractTests(row, 1)
       IN IF Len(tests) > 0
          THEN << [row |-> index,
                   studentId |-> studentId,
                   studentName |-> IF initials = <<>>
                                   THEN <<"S", "t", "u", "d", "e", "n", "t", " ">>
                                          \o studentId
                                   ELSE initials,
                   date |-> IF date.k = "null" THEN now ELSE date,
                   age |-> parseNumber(row.Age),
                   tests |-> tests] >>
          ELSE <<>>

RECURSIVE processFrom(_, _)
processFrom(rows, i) ==
  IF i > Len(rows) THEN <<>>
  ELSE processRow(rows[i], i) \o processFrom(rows, i + 1)

processCSVData(rows) == processFrom(rows, 1)

\* the characters of the model's strings in the order of the default
\* collation: white space, punctuation, symbols, digits, letters
CollationOrder ==
  <<" ", "-", "/", "#", "+">> \o Digits
    \o <<"A", "B", "D", "E", "N", "S", "T", "U", "X">>

LowerCase == <<"a", "b", "d", "e", "n", "s", "t", "u", "x">>

UpperCase == <<"A", "B", "D", "E", "N", "S", "T", "U", "X">>

isLower(c) == \E i \in 1..Len(LowerCase) : LowerCase[i] = c

toUpper(c) ==
  IF isLower(c)
  THEN UpperCase[CHOOSE i \in 1..Len(LowerCase) : LowerCase[i] = c]
  ELSE c

\* the primary weight of a character: its letter, whatever its case
primaryWeight(c) ==
  CHOOSE i \in 1..Len(CollationOrder) : CollationOrder[i] = toUpper(c)

\* a.localeCompare(b): the first difference of primary weight decides, then
\* the length, then the first difference of case (lower case first)
localeCompare(a, b) ==
  LET n == IF Len(a) < Len(b) THEN Len(a) ELSE Len(b)
      differ == { i \in 1..n : primaryWeight(a[i]) # primaryWeight(b[i]) }
      cased == { i \in 1..n : a[i] # b[i] }
  IN IF differ # {}
     THEN LET i == CHOOSE i \in differ : \A j \in differ : i <= j
          IN primaryWeight(a[i]) - primaryWeight(b[i])
     ELSE IF Len(a) # Len(b) THEN Len(a) - Len(b)
     ELSE IF cased # {}
     THEN LET i == CHOOSE i \in cased : \A j \in cased : i <= j
          IN IF isLower(a[i]) THEN -1 ELSE 1
     ELSE 0

\* Array.prototype.sort with a comparator that is a total preorder, given as
\* the table compared[i, j] of its results on arr[i] and arr[j]: a stable
\* sort puts at place p the element with p - 1 elements before it, those
\* that compare lower and those that tie and come earlier
stableSort(arr, compared) ==
  LET n == Len(arr)
      before(i) == { j \in 1..n : \/ compared[j, i] < 0
                                  \/ compared[j, i] = 0 /\ j < i }
  IN [p \in 1..n |-> arr[CHOOSE i \in 1..n : Cardinality(before(i)) = p - 1]]

\* studentMap after the records from i on have been seen: its values, in
\* insertion order
RECURSIVE studentMapFrom(_, _, _)
studentMapFrom(records, i, studentMap) ==
  IF i > Len(records) THEN studentMap
  ELSE IF \E m \in 1..Len(studentMap) : studentMap[m].id = records[i].studentId
       THEN studentMapFrom(records, i + 1, studentMap)
       ELSE studentMapFrom(records, i + 1,
              Append(studentMap, [id |-> records[i].studentId,
                                  name |-> records[i].studentName]))

compareNames(a, b) == localeCompare(a.name, b.name)

\* getUniqueStudents that returns the students in the order of the records
getUniqueStudents_Unsorted(records) == studentMapFrom(records, 1, <<>>)

getUniqueStudents(records) ==
  LET found == studentMapFrom(records, 1, <<>>)
  IN stableSort(found, [i \in 1..Len(found), j \in 1..Len(found) |->
                          compareNames(found[i], found[j])])

(* ---------------------------- insights panel --------------------------- *)

getNormativeParams(testType) ==
  IF testType = "scaled" THEN [mean |-> 10, sd |-> 3]
  ELSE [mean |-> 100, sd |-> 15]

\* the labels with a boundary value in the upper bucket
getScoreInterpretation_Strict(score) ==
  IF score.k = "null" \/ score.k = "undefined" THEN "No Data"
  ELSE IF isNaN(score) THEN "Significantly Above Average"
  ELSE LET mean == 100
           sd == 15
           z == score.v - mean
       IN IF z < -2 * sd THEN "Significantly Below Average"
          ELSE IF z < -1 * sd THEN "Below Average"
          ELSE IF z < 1 * sd THEN "Average"
          ELSE IF z < 2 * sd THEN "Above Average"
          ELSE "Significantly Above Average"

\* z <= t for z = (score - mean) / sd, decided on score - mean and t * sd:
\* the division is rounded monotonically and the thresholds are integers;
\* every comparison with a z that is NaN is false
getScoreInterpretation(score) ==
  IF score.k = "null" \/ score.k = "undefined" THEN "No Data"
  ELSE IF isNaN(score) THEN "Significantly Above Average"
  ELSE LET mean == 100
           sd == 15
           z == score.v - mean
       IN IF z <= -2 * sd THEN "Significantly Below Average"
          ELSE IF z <= -1 * sd THEN "Below Average"
          ELSE IF z <= 1 * sd THEN "Average"
          ELSE IF z <= 2 * sd THEN "Above Average"
          ELSE "Significantly Above Average"

receptiveTests == <<"RLI", "SC", "BC", "WC", "DPP", "PRS">>

expressiveTests == <<"ELI", "WS", "EV", "FD", "RS">>

includes(list, key) == \E i \in 1..Len(list) : list[i] = key

\* ({test, score, interpretation}) of an entry of the tests object
scoreItem(test) ==
  [test |-> IF test.testName = "" THEN test.key ELSE test.testName,
   score |-> test.standardScore,
   interpretation |-> getScoreInterpretation(test.standardScore)]

mapScoreItems(tests) == [i \in 1..Len(tests) |-> scoreItem(tests[i])]

compareAscending(a, b) == a.score.v - b.score.v

compareDescending(a, b) == b.score.v - a.score.v

\* the filter that also lets the score mean - sd through
belowAverage_Inclusive(testEntries, mean, sd) ==
  LET low(test) == test.standardScore.k # "null"
                   /\ test.standardScore.v <= mean - sd
      items == mapScoreItems(SelectSeq(testEntries, low))
  IN stableSort(items, [i \in 1..Len(items), j \in 1..Len(items) |->
                          compareAscending(items[i], items[j])])

belowAverage(testEntries, mean, sd) ==
  LET low(test) == test.standardScore.k # "null"
                   /\ test.standardScore.v < mean - sd
      items == mapScoreItems(SelectSeq(testEntries, low))
  IN stableSort(items, [i \in 1..Len(items), j \in 1..Len(items) |->
                          compareAscending(items[i], items[j])])

aboveAverage(testEntries, mean, sd) ==
  LET high(test) == test.standardScore.k # "null"
                    /\ test.standardScore.v > mean + sd
      items == mapScoreItems(SelectSeq(testEntries, high))
  IN stableSort(items, [i \in 1..Len(items), j \in 1..Len(items) |->
                          compareDescending(items[i], items[j])])

\* the non-null standard scores of the entries whose key is in list
scoresOf(testEntries, list) ==
  LET listed(test) == includes(list, test.key)
                      /\ test.standardScore.k # "null"
      kept == SelectSeq(testEntries, listed)
  IN [i \in 1..Len(kept) |-> kept[i].standardScore.v]

RECURSIVE sum(_)
sum(scores) ==
  IF scores = <<>> THEN 0 ELSE scores[1] + sum(Tail(scores))

\* scores.reduce((a, b) => a + b, 0) / scores.length, or null: the quotient
\* is kept as the pair it is made of, both being integers
average(scores) ==
  IF Len(scores) > 0
  THEN [k |-> "num", sum |-> sum(scores), count |-> Len(scores)]
  ELSE Null

RECURSIVE pow2(_)
pow2(k) == IF k = 0 THEN 1 ELSE 2 * pow2(k - 1)

\* 2^k modulo n
RECURSIVE pow2Mod(_, _)
pow2Mod(k, n) == IF k = 0 THEN 1 % n ELSE (2 * pow2Mod(k - 1, n)) % n

\* the binary exponent e of s / n, for s > 0: 2^e <= s / n < 2^(e + 1)
RECURSIVE binaryExponent(_, _)
binaryExponent(s, n) ==
  IF s >= 2 * n THEN 1 + binaryExponent(s, 2 * n)
  ELSE IF s < n THEN binaryExponent(2 * s, n) - 1
  ELSE 0

\* the double that the division s / n yields is s / n + d / (n * 2^(52 - e))
\* for the d returned here: the quotient has 52 binary places after its
\* leading digit and is rounded to the nearest (no tie arises for n <= 6)
quotientError(s, n) ==
  IF s = 0 THEN 0
  ELSE LET places == 52 - binaryExponent(s, n)
           r == ((s % n) * pow2Mod(places, n)) % n
       IN IF 2 * r < n THEN 0 - r ELSE n - r

\* Math.abs(avgReceptive - avgExpressive) >= 10 on doubles.  Where the
\* quotients differ by another amount than 10 they differ from it by 1/36
\* at least and the rounding does not count.  Where they differ by exactly 10
\* the doubles differ by 10 + x, x the difference of the two errors, and
\* the subtraction rounds it to 10 or above iff x >= -2^-50, half the
\* distance from 10 to the double below it; the errors are compared in
\* units of 1 / (2^55 * na * nb)
differenceIsSignificant(avgReceptive, avgExpressive) ==
  LET sr == avgReceptive.sum
      nr == avgReceptive.count
      se == avgExpressive.sum
      ne == avgExpressive.count
      gap == IF sr * ne >= se * nr THEN sr * ne - se * nr ELSE se * nr - sr * ne
      receptiveHigher == sr * ne > se * nr
      sa == IF receptiveHigher THEN sr ELSE se
      na == IF receptiveHigher THEN nr ELSE ne
      sb == IF receptiveHigher THEN se ELSE sr
      nb == IF receptiveHigher THEN ne ELSE nr
      ea == binaryExponent(sa, na)
      eb == IF sb = 0 THEN 0 ELSE binaryExponent(sb, nb)
      x == quotientError(sa, na) * pow2(ea + 3) * nb
             - quotientError(sb, nb) * pow2(eb + 3) * na
  IN IF gap # 10 * nr * ne THEN gap > 10 * nr * ne
     ELSE x >= 0 - 32 * na * nb

\* (a, b) => new Date(a.date) - new Date(b.date)
compareDatesAscending(a, b) == a.date - b.date

\* assessment.tests[testKey], undefined for a missing key
testOf(assessment, testKey) ==
  LET found == { i \in 1..Len(assessment.tests) :
                   assessment.tests[i].key = testKey }
  IN IF found = {} THEN Undefined
     ELSE assessment.tests[CHOOSE i \in found : TRUE]

\* Object.keys of the tests object
keysOf(assessment) ==
  [i \in 1..Len(assessment.tests) |-> assessment.tests[i].key]

\* the values of new Set([...first, ...second]), in insertion order
RECURSIVE unionKeys(_, _)
unionKeys(first, second) ==
  IF second = <<>> THEN first
  ELSE unionKeys(IF includes(first, second[1]) THEN first
                 ELSE Append(first, second[1]),
                 Tail(second))

\* the loop body that pushes an item for every change, however small
progressItem_AnyChange(firstAssessment, lastAssessment, testKey) ==
  LET firstTest == testOf(firstAssessment, testKey)
      lastTest == testOf(lastAssessment, testKey)
      firstScore == IF firstTest.k = "undefined" THEN Undefined
                    ELSE firstTest.standardScore
      lastScore == IF lastTest.k = "undefined" THEN Undefined
                   ELSE lastTest.standardScore
      change == Minus(lastScore, firstScore)
  IN IF firstScore.k # "null" /\ lastScore.k # "null" /\ change.k = "num"
     THEN << [test |-> IF firstTest.k = "undefined" THEN testKey
                       ELSE firstTest.testName,
              change |-> change.v,
              firstScore |-> firstScore, lastScore |-> lastScore,
              firstDate |-> firstAssessment.date,
              lastDate |-> lastAssessment.date] >>
     ELSE <<>>

\* the body of the loop over testKeys: the items pushed for one key
progressItem(firstAssessment, lastAssessment, testKey) ==
  LET firstTest == testOf(firstAssessment, testKey)
      lastTest == testOf(lastAssessment, testKey)
      firstScore == IF firstTest.k = "undefined" THEN Undefined
                    ELSE firstTest.standardScore
      lastScore == IF lastTest.k = "undefined" THEN Undefined
                   ELSE lastTest.standardScore
      change == Minus(lastScore, firstScore)
      absolute == IF change.v < 0 THEN 0 - change.v ELSE change.v
  IN IF firstScore.k # "null" /\ lastScore.k # "null"
        /\ change.k = "num" /\ absolute >= 5
     THEN << [test |-> IF firstTest.k = "undefined" THEN testKey
                       ELSE firstTest.testName,
              change |-> change.v,
              firstScore |-> firstScore, lastScore |-> lastScore,
              firstDate |-> firstAssessment.date,
              lastDate |-> lastAssessment.date] >>
     ELSE <<>>

RECURSIVE progressItems(_, _, _)
progressItems(firstAssessment, lastAssessment, testKeys) ==
  IF testKeys = <<>> THEN <<>>
  ELSE progressItem(firstAssessment, lastAssessment, testKeys[1])
         \o progressItems(firstAssessment, lastAssessment, Tail(testKeys))

\* [...assessments].sort(ascending by date), for the array as the panel has
\* sorted it
sortedAssessments(sorted) ==
  stableSort(sorted, [i \in 1..Len(sorted), j \in 1..Len(sorted) |->
                        compareDatesAscending(sorted[i], sorted[j])])

\* progressInsights for the array as the panel has sorted it
progressInsights(sorted) ==
  IF Len(sorted) > 1
  THEN LET firstAssessment == sortedAssessments(sorted)[1]
           lastAssessment == sortedAssessments(sorted)[Len(sorted)]
       IN progressItems(firstAssessment, lastAssessment,
                        unionKeys(keysOf(firstAssessment), keysOf(lastAssessment)))
  ELSE <<>>

\* the text of a progress item, kept as the values it is made of:
\* `${test}: ${direction} by ${changeStr} points (${firstScore} -> ${lastScore})`
progressText(item) ==
  [test |-> item.test,
   direction |-> IF item.change > 0 THEN "improved" ELSE "declined",
   changeStr |-> IF item.change < 0 THEN 0 - item.change ELSE item.change,
   firstScore |-> item.firstScore, lastScore |-> item.lastScore]

\* the records that one run of the memo takes as latest, and as first and
\* last of the progress comparison; 0 where none is taken
recordsUsed(sorted) ==
  [latest |-> IF sorted = <<>> THEN 0 ELSE sorted[1].id,
   firstAssessment |-> IF Len(sorted) > 1
                       THEN sortedAssessments(sorted)[1].id ELSE 0,
   lastAssessment |-> IF Len(sorted) > 1
                      THEN sortedAssessments(sorted)[Len(sorted)].id ELSE 0]

\* the memo that pushes 'Areas Needing Support' whether or not a test is
\* below average
insightsList_AlwaysSupport(sorted) ==
  IF sorted = <<>> THEN <<>>
  ELSE LET params == getNormativeParams("standard")
           testEntries == sorted[1].tests
           below == belowAverage(testEntries, params.mean, params.sd)
           above == aboveAverage(testEntries, params.mean, params.sd)
           avgReceptive == average(scoresOf(testEntries, receptiveTests))
           avgExpressive == average(scoresOf(testEntries, expressiveTests))
           progress == progressInsights(sorted)
       IN << [type |-> "below-average",
                title |-> "Areas Needing Support", items |-> below] >>
          \o (IF Len(above) > 0
              THEN << [type |-> "above-average",
                       title |-> "Relative Strengths", items |-> above] >>
              ELSE <<>>)
          \o (IF /\ avgReceptive.k # "null"
                 /\ avgExpressive.k # "null"
                 /\ differenceIsSignificant(avgReceptive, avgExpressive)
              THEN << [type |-> "receptive-expressive",
                       title |-> "Receptive vs Expressive Comparison",
                       items |-> << [avgReceptive |-> avgReceptive,
                                     avgExpressive |-> avgExpressive,
                                     stronger |->
                                       IF avgReceptive.sum * avgExpressive.count
                                            > avgExpressive.sum * avgReceptive.count
                                       THEN "Receptive" ELSE "Expressive"] >>] >>
              ELSE <<>>)
          \o (IF Len(progress) > 0
              THEN << [type |-> "progress",
                       title |-> "Progress Over Time",
                       items |-> [i \in 1..Len(progress) |->
                                    progressText(progress[i])]] >>
              ELSE <<>>)

\* the list the memo of InsightsPanel returns for the array once sorted; the
\* items are kept as the values their text is made of
insightsList(sorted) ==
  IF sorted = <<>> THEN <<>>
  ELSE LET params == getNormativeParams("standard")
           testEntries == sorted[1].tests
           below == belowAverage(testEntries, params.mean, params.sd)
           above == aboveAverage(testEntries, params.mean, params.sd)
           avgReceptive == average(scoresOf(testEntries, receptiveTests))
           avgExpressive == average(scoresOf(testEntries, expressiveTests))
           progress == progressInsights(sorted)
       IN (IF Len(below) > 0
           THEN << [type |-> "below-average",
                    title |-> "Areas Needing Support", items |-> below] >>
           ELSE <<>>)
          \o (IF Len(above) > 0
              THEN << [type |-> "above-average",
                       title |-> "Relative Strengths", items |-> above] >>
              ELSE <<>>)
          \o (IF /\ avgReceptive.k # "null"
                 /\ avgExpressive.k # "null"
                 /\ differenceIsSignificant(avgReceptive, avgExpressive)
              THEN << [type |-> "receptive-expressive",
                       title |-> "Receptive vs Expressive Comparison",
                       items |-> << [avgReceptive |-> avgReceptive,
                                     avgExpressive |-> avgExpressive,
                                     stronger |->
                                       IF avgReceptive.sum * avgExpressive.count
                                            > avgExpressive.sum * avgReceptive.count
                                       THEN "Receptive" ELSE "Expressive"] >>] >>
              ELSE <<>>)
          \o (IF Len(progress) > 0
              THEN << [type |-> "progress",
                       title |-> "Progress Over Time",
                       items |-> [i \in 1..Len(progress) |->
                                    progressText(progress[i])]] >>
              ELSE <<>>)

(* ------------------------------ memo of App ---------------------------- *)

\* assessment?.tests[key]?.standardScore
scoreOf(assessment, key) ==
  IF assessment.k = "null" THEN Undefined
  ELSE IF testOf(assessment.v, key).k = "undefined" THEN Undefined
  ELSE testOf(assessment.v, key).standardScore

\* score && previous ? ((score - previous) / previous) * 100 : null, the
\* quotient kept as the difference and the base it is made of
percentChange(score, previous) ==
  IF Falsy(score) \/ Falsy(previous) THEN Null
  ELSE [k |-> "num", difference |-> score.v - previous.v, base |-> previous.v]

\* the number of entries whose standard score is not null and in low..high
countBetween(testEntries, low, high) ==
  Cardinality({ i \in 1..Len(testEntries) :
                  /\ testEntries[i].standardScore.k # "null"
                  /\ testEntries[i].standardScore.v >= low
                  /\ testEntries[i].standardScore.v <= high })

\* kpiData for the array sorted by descending date; the scores are below
\* 1000
kpiData(sorted) ==
  LET mean == 100
      sd == 15
      latest == [k |-> "ref", v |-> sorted[1]]
      previousAssessment == IF Len(sorted) > 1 THEN [k |-> "ref", v |-> sorted[2]]
                            ELSE Null
      cls == scoreOf(latest, "CLS")
      rli == scoreOf(latest, "RLI")
      eli == scoreOf(latest, "ELI")
      testEntries == sorted[1].tests
  IN [coreLanguageScore |-> cls,
      coreLanguageChange |-> percentChange(cls, scoreOf(previousAssessment, "CLS")),
      receptiveLanguageIndex |-> rli,
      receptiveChange |-> percentChange(rli, scoreOf(previousAssessment, "RLI")),
      expressiveLanguageIndex |-> eli,
      expressiveChange |-> percentChange(eli, scoreOf(previousAssessment, "ELI")),
      totalTests |-> Len(testEntries),
      belowAverageCount |-> countBetween(testEntries, -1000, mean - sd - 1),
      averageCount |-> countBetween(testEntries, mean - sd, mean + sd),
      aboveAverageCount |-> countBetween(testEntries, mean + sd + 1, 1000)]

\* `${item.test}: ${item.score}`, kept as the values it is made of
exportItem(test) ==
  [test |-> IF test.testName = "" THEN test.key ELSE test.testName,
   score |-> test.standardScore]

\* the insightsList that the memo of App builds from the latest assessment
exportInsights(testEntries) ==
  LET mean == 100
      sd == 15
      low(test) == test.standardScore.k # "null"
                   /\ test.standardScore.v < mean - sd
      high(test) == test.standardScore.k # "null"
                    /\ test.standardScore.v > mean + sd
      belowEntries == SelectSeq(testEntries, low)
      aboveEntries == SelectSeq(testEntries, high)
  IN (IF Len(belowEntries) > 0
      THEN << [type |-> "below-average", title |-> "Areas Needing Support",
               items |-> [i \in 1..Len(belowEntries) |->
                            exportItem(belowEntries[i])]] >>
      ELSE <<>>)
     \o (IF Len(aboveEntries) > 0
         THEN << [type |-> "above-average", title |-> "Relative Strengths",
                  items |-> [i \in 1..Len(aboveEntries) |->
                               exportItem(aboveEntries[i])]] >>
         ELSE <<>>)

\* the keys of the tests objects of all the records, each once, in the
\* order of their first occurrence
RECURSIVE uniqueTests(_)
uniqueTests(records) ==
  IF records = <<>> THEN <<>>
  ELSE unionKeys(keysOf(records[1]), uniqueTests(Tail(records)))

\* the value of the memo of App for the records of the selected student, as
\* data.filter returns them; the array is sorted in place
studentMemo(records) ==
  [studentAssessments |-> sort(records),
   tests |-> uniqueTests(records),
   insights |-> IF Len(records) > 0 THEN exportInsights(sort(records)[1].tests)
                ELSE <<>>,
   kpiMetrics |-> IF Len(records) > 0 THEN kpiData(sort(records)) ELSE Null]

(* --------------------------- student switcher -------------------------- *)

toLower(c) ==
  IF \E i \in 1..Len(UpperCase) : UpperCase[i] = c
  THEN LowerCase[CHOOSE i \in 1..Len(UpperCase) : UpperCase[i] = c]
  ELSE c

toLowerCase(chars) == [i \in 1..Len(chars) |-> toLower(chars[i])]

\* String.prototype.includes
includesString(chars, part) ==
  \E i \in 0..(Len(chars) - Len(part)) : SubSeq(chars, i + 1, i + Len(part)) = part

matchesQuery(student, q) ==
  IF q = <<>> THEN TRUE
  ELSE \/ includesString(toLowerCase(student.name), toLowerCase(q))
       \/ includesString(toLowerCase(student.id), toLowerCase(q))

\* the memo of StudentSearchDropdown: the first 25 students that match
filtered(studentList, q) ==
  LET matches(student) == matchesQuery(student, q)
      kept == SelectSeq(studentList, matches)
  IN SubSeq(kept, 1, IF Len(kept) < 25 THEN Len(kept) ELSE 25)

\* the item of localStorage: none, a text that is no JSON array, or the
\* JSON text of an array of ids
Unparsable == [k |-> "text", v |-> <<>>]

StoredArray(ids) == [k |-> "arr", v |-> ids]

loadRecentStudentIds(raw) == IF raw.k = "arr" THEN raw.v ELSE <<>>

\* the updater that keeps every id
nextRecentIds_NoLimit(prev, studentId) ==
  LET other(id) == id # studentId
  IN <<studentId>> \o SelectSeq(prev, other)

\* [studentId, ...prev.filter(id => id !== studentId)].slice(0, 8)
nextRecentIds(prev, studentId) ==
  LET other(id) == id # studentId
      next == <<studentId>> \o SelectSeq(prev, other)
  IN SubSeq(next, 1, IF Len(next) < 8 THEN Len(next) ELSE 8)

\* students.find(s => s.id === studentId)
find(studentList, studentId) ==
  LET found == { i \in 1..Len(studentList) : studentList[i].id = studentId }
  IN IF found = {} THEN Undefined
     ELSE [k |-> "ref",
           v |-> studentList[CHOOSE i \in found : \A j \in found : i <= j]]

\* the effect that leaves the recent ids as they are
selectedEffect_Never(prev, student) == prev

\* the effect of StudentSwitcher on selectedStudent: the value of recentIds
\* after it
selectedEffect(prev, student) ==
  IF Falsy(student) THEN prev
  ELSE IF prev # <<>> /\ prev[1] = student.v.id THEN prev
  ELSE nextRecentIds(prev, student.v.id)

\* the students of the recent pills: those of the recent ids that are
\* students, eight at most
RECURSIVE recentStudents(_, _, _)
recentStudents(studentList, ids, result) ==
  IF studentList = <<>> \/ ids = <<>> \/ Len(result) >= 8 THEN result
  ELSE recentStudents(studentList, Tail(ids),
         IF find(studentList, ids[1]).k = "ref"
         THEN Append(result, find(studentList, ids[1]).v)
         ELSE result)

\* the effect that never touches the index
correctedIndex_Never(index, length) == index

\* the effect of the dropdown on filtered.length and highlightedIndex: the
\* index after it
correctedIndex(index, length) ==
  IF index >= length THEN (IF length > 0 THEN 0 ELSE -1) ELSE index

\* the effect of the dropdown on selectedStudent and query: the query after
\* it; a student's name is never empty
initialisedQuery(q, student) ==
  IF ~Falsy(student) /\ q = <<>> THEN student.v.name ELSE q

\* the index once both effects have run: the range is corrected for the
\* list of the query as set, and again for the list of the query as
\* initialised
settledIndex(studentList, q, index, student) ==
  correctedIndex(
    correctedIndex(index, Len(filtered(studentList, q))),
    Len(filtered(studentList, initialisedQuery(q, student))))

\* what App renders
rendered ==
  IF loading THEN "loading"
  ELSE IF error.k # "null" THEN "error"
  ELSE IF Falsy(selectedStudent) \/ Len(students) = 0 THEN "no-data"
  ELSE "dashboard"

(* -------------------------- dashboard inputs --------------------------- *)

MaxRows == 3

\* an entry of a record's tests object with the given standard score; an
\* entry without standard score has a scaled score
TestResult(prefix, standardScore) ==
  [k |-> "test", key |-> prefix, standardScore |-> standardScore,
   scaledScore |-> IF standardScore.k = "null" THEN Num(10) ELSE Null,
   percentile |-> Null, rawScore |-> Null, testName |-> testNameOf(prefix)]

\* tests objects of the records of one student, their keys in the order of
\* TEST_NAMES: scores on and next to mean - sd and mean + sd, equal scores,
\* the score 0, an entry without standard score, receptive and expressive
\* averages 40, 15, 10, 9.5 and 7 apart, keys of neither list, and scores
\* of one test that are 1, 3, 5 and 10 apart
PanelTests ==
  { << TestResult("RLI", Num(110)), TestResult("ELI", Num(95)) >>,
    << TestResult("RLI", Num(105)), TestResult("ELI", Num(98)) >>,
    << TestResult("RLI", Num(100)), TestResult("ELI", Num(90)) >>,
    << TestResult("SC", Num(54)), TestResult("WS", Num(64)),
       TestResult("EV", Num(64)), TestResult("BC", Num(54)),
       TestResult("RLI", Num(55)), TestResult("ELI", Num(65)) >>,
    << TestResult("SC", Num(120)), TestResult("WS", Num(130)),
       TestResult("BC", Num(116)), TestResult("RLI", Num(115)),
       TestResult("ELI", Num(85)) >>,
    << TestResult("SC", Null), TestResult("RLI", Num(0)),
       TestResult("ELI", Num(84)) >>,
    << TestResult("SC", Num(90)), TestResult("BC", Num(80)),
       TestResult("ELI", Num(95)) >>,
    << TestResult("RLI", Num(100)) >>,
    << TestResult("WS", Num(90)), TestResult("ELI", Num(100)) >>,
    << TestResult("PA", Num(70)), TestResult("CLS", Num(130)) >>,
    << TestResult("BC", Num(90)), TestResult("ELI", Num(98)) >>,
    << TestResult("RLI", Num(120)), TestResult("ELI", Num(80)) >>,
    << TestResult("RLI", Num(116)), TestResult("ELI", Num(100)) >>,
    << TestResult("PA", Num(76)), TestResult("CLS", Num(130)) >> }

PanelShapes == [id : {0}, date : Dates, tests : PanelTests]

\* the assessments of the selected student; the i-th element is the object
\* with identity i
PanelArrays ==
  { [i \in 1..Len(a) |-> [a[i] EXCEPT !.id = i]] :
      a \in SeqsUpTo(PanelShapes, MaxAssessments) }

\* standard scores given to the band functions
BandScores ==
  {0, 69, 70, 71, 84, 85, 86, 100, 114, 115, 116, 129, 130, 131, 160}

\* values of a numeric column of the sheet
NumberCells ==
  { Undefined, Str(<<>>), Str(<<"#", "N", "/", "A">>), Str(<<"-", "1">>),
    Str(<<"0">>), Str(<<"8", "5">>), Str(<<"-", "1", "5">>),
    Str(<<" ", "-", "1">>), Str(<<"+", "7">>), Str(<<"8", " ", "5">>),
    Str(<<"n", "/", "a">>), Str(<<"-">>), Str(<<"1", "0", "0", "x">>) }

Row(id, initials, date, age, rli, eli) ==
  [LT_Id |-> id, Child_Initials |-> initials, AssessmentDate |-> date,
   Age |-> age, cells |-> [RLI |-> rli, ELI |-> eli]]

NoCells == Cells(Undefined, Undefined, Undefined, Undefined)

AbsentCells ==
  Cells(Str(<<"-", "1">>), Str(<<"#", "N", "/", "A">>), Str(<<>>), Str(<<"-", "1">>))

ScoredCells == Cells(Str(<<"8", "5">>), Str(<<"7">>), Str(<<"1", "6">>), Str(<<"9">>))

\* rows of the sheet: ids that are missing, empty, blank, the literal '#N/A',
\* padded; names that are missing, empty, shared; dates in both formats,
\* malformed, empty; scores that are numbers, sentinels, malformed, zero
RowPool ==
  { Row(Str(<<"1">>), Str(<<"B">>), Str(<<"1", "/", "2", "/", "2", "0", "2", "4">>),
        Str(<<"4">>), ScoredCells,
        Cells(Str(<<"#", "N", "/", "A">>), Str(<<"7">>), Str(<<>>), Str(<<>>))),
    Row(Str(<<" ", "1", " ">>), Str(<<"A">>),
        Str(<<"2", "0", "2", "4", "-", "0", "1", "-", "0", "2">>),
        Str(<<>>), Cells(Str(<<"0">>), Undefined, Undefined, Undefined), AbsentCells),
    Row(Str(<<"2">>), Undefined, Str(<<"s", "o", "o", "n">>), Str(<<"x">>),
        Cells(Str(<<"x">>), Str(<<"1", "2">>), Str(<<"-", "1">>), Str(<<"+", "7">>)),
        NoCells),
    Row(Str(<<"2">>), Str(<<"A">>), Str(<<>>), Str(<<"5">>), AbsentCells, AbsentCells),
    Row(Str(<<"3">>), Str(<<" ", "A", "B">>),
        Str(<<"1", "2", "/", "3", "1", "/", "9", "9">>), Undefined,
        Cells(Str(<<"x">>), Str(<<"-">>), Str(<<"5">>), Str(<<"5">>)),
        Cells(Str(<<" ", "8", "5">>), Str(<<"-", "1">>), Undefined, Undefined)),
    Row(Undefined, Str(<<"A">>), Str(<<"1", "/", "2", "/", "2", "0", "2", "4">>),
        Str(<<"4">>), ScoredCells, ScoredCells),
    Row(Str(<<>>), Str(<<"A">>), Undefined, Str(<<"4">>), ScoredCells, NoCells),
    Row(Str(<<" ", " ">>), Str(<<"B">>), Str(<<"s", "o", "o", "n">>), Str(<<"4">>),
        NoCells, ScoredCells),
    Row(Str(<<"#", "N", "/", "A">>), Str(<<"B">>), Str(<<>>), Str(<<"4">>),
        ScoredCells, ScoredCells),
    Row(Str(<<" ", "#", "N", "/", "A">>), Str(<<>>), Str(<<>>), Str(<<"4">>),
        ScoredCells, NoCells) }

\* results.data of Papa.parse
RowArrays == SeqsUpTo(RowPool, MaxRows)

(* ------------------------- dashboard behaviour ------------------------- *)

DashboardInit ==
  /\ interpretations = <<>>
  /\ assessments = <<>>
  /\ original = <<>>
  /\ audienceUsed = "none"
  /\ pc = "idle"
  /\ call = NoCall
  /\ allRetrievedEntries = <<>>
  /\ report = NoReport
  /\ latestAssessment = [retrieval |-> 0, assembly |-> 0]
  /\ firstReport = NoReport
  /\ rawData = <<>>
  /\ data = <<>>
  /\ students = <<>>
  /\ insights = <<>>
  /\ AppAtStart

\* the values that retrieval and assembly work on
pipelineVars == <<interpretations, audienceUsed, allRetrievedEntries, report,
                  latestAssessment, firstReport>>

\* extractTestData reads a column of a row
ParseNumber ==
  /\ pc = "idle"
  /\ \E value \in NumberCells :
       call' = [fn |-> "parseNumber", value |-> value,
                result |-> parseNumber(value)]
  /\ pc' = "queried"
  /\ UNCHANGED <<assessments, original, pipelineVars, dashboardVars>>

\* the score of a test is given its band; two scores are taken at a time
Classify ==
  /\ pc = "idle"
  /\ \E s \in BandScores, t \in BandScores :
       call' = [fn |-> "getNormativeBand",
                score |-> s,
                band |-> getNormativeBand(calculateZScore(Num(s), "standard")),
                other |-> t,
                otherBand |-> getNormativeBand(calculateZScore(Num(t), "standard"))]
  /\ pc' = "queried"
  /\ UNCHANGED <<assessments, original, pipelineVars, dashboardVars>>

\* a standard score is labelled as the panel labels it and as the assembler
\* does
Interpret ==
  /\ pc = "idle"
  /\ \E score \in {Num(s) : s \in BandScores} \cup {Null, Undefined, NaN} :
       call' = [fn |-> "getScoreInterpretation",
                score |-> score,
                label |-> getScoreInterpretation(score),
                band |-> getNormativeBand(calculateZScore(score, "standard"))]
  /\ pc' = "queried"
  /\ UNCHANGED <<assessments, original, pipelineVars, dashboardVars>>

\* the complete callback of Papa.parse for the rows results.data.  Every
\* cell of a row is a string or missing, and on such rows processCSVData
\* and getUniqueStudents do not throw: the catch block is not entered
complete(rows) ==
  LET processedData == processCSVData(rows)
      uniqueStudents == getUniqueStudents(processedData)
  IN /\ rawData' = rows
     /\ data' = processedData
     /\ students' = uniqueStudents
     /\ selectedStudent' = IF Len(uniqueStudents) > 0
                           THEN [k |-> "ref", v |-> uniqueStudents[1]]
                           ELSE selectedStudent
     /\ loading' = FALSE
     /\ error' = error

\* the complete callback of Papa.parse in App
LoadCSV ==
  /\ pc = "idle"
  /\ \E rows \in RowArrays : complete(rows)
  /\ pc' = "loaded"
  /\ UNCHANGED <<assessments, original, call, pipelineVars, insights, memoVars,
                 switcherVars>>

\* the memo of InsightsPanel runs on the assessments of the selected
\* student; a non-empty array is sorted in place
ShowInsights ==
  /\ pc = "idle"
  /\ \E arr \in PanelArrays :
       /\ original' = arr
       /\ assessments' = sort(arr)
       /\ insights' = insightsList(sort(arr))
       /\ panelAssessments' = recordsUsed(sort(arr))
  /\ pc' = "shown"
  /\ UNCHANGED <<call, pipelineVars, rawData, data, students, memo, appVars,
                 switcherVars>>

\* the memo of App runs on the records of the selected student
DeriveStudentData ==
  /\ pc = "idle"
  /\ \E arr \in PanelArrays :
       /\ original' = arr
       /\ assessments' = sort(arr)
       /\ memo' = studentMemo(arr)
  /\ pc' = "derived"
  /\ UNCHANGED <<call, pipelineVars, rawData, data, students, insights,
                 panelAssessments, appVars, switcherVars>>

\* InsightsPanel is rendered with the studentAssessments of the memo of App
RenderPanel ==
  /\ pc = "derived"
  /\ assessments' = sort(memo.studentAssessments)
  /\ insights' = insightsList(sort(memo.studentAssessments))
  /\ panelAssessments' = recordsUsed(sort(memo.studentAssessments))
  /\ pc' = "rendered"
  /\ UNCHANGED <<original, call, pipelineVars, rawData, data, students, memo,
                 appVars, switcherVars>>

DashboardNext ==
  \/ ParseNumber
  \/ Classify
  \/ Interpret
  \/ LoadCSV
  \/ ShowInsights
  \/ DeriveStudentData
  \/ RenderPanel

DashboardSpec == DashboardInit /\ [][DashboardNext]_vars

(* ---------------------------- app behaviour ---------------------------- *)

\* rows of a sheet with the students AB (id 3), B (id 1, two records) and
\* 'Student 2' (id 2, no initials), and a row without id
SheetRows ==
  << Row(Str(<<"1">>), Str(<<"B">>), Str(<<"1", "/", "2", "/", "2", "0", "2", "4">>),
         Str(<<"4">>), ScoredCells, NoCells),
     Row(Str(<<"2">>), Undefined, Str(<<"1", "/", "2", "/", "2", "0", "2", "4">>),
         Str(<<"4">>), NoCells, ScoredCells),
     Row(Str(<<"3">>), Str(<<" ", "A", "B">>),
         Str(<<"2", "0", "2", "4", "-", "0", "1", "-", "0", "2">>),
         Str(<<"5">>), ScoredCells, ScoredCells),
     Row(Str(<<"1">>), Str(<<"B">>), Str(<<>>), Str(<<"5">>), ScoredCells,
         ScoredCells),
     Row(Str(<<>>), Str(<<"A">>), Undefined, Str(<<"4">>), ScoredCells, NoCells) >>

\* results.data for the sheets the server can hold: three students, one
\* student, no student
Sheets ==
  { SubSeq(SheetRows, 1, 4), SubSeq(SheetRows, 2, 2), SubSeq(SheetRows, 5, 5) }

\* results.data for the body of a 'not found' response: the lines of a page,
\* none of which has a column of the sheet
NotFoundPage ==
  << Row(Undefined, Undefined, Undefined, Undefined, NoCells, NoCells),
     Row(Undefined, Undefined, Undefined, Undefined, NoCells, NoCells) >>

\* the item of localStorage when the page is opened: none, a text that is
\* no array, and arrays that saveRecentStudentIds has written in an earlier
\* session, one of them full, with ids of students that are gone
StoredItems ==
  { Null, Unparsable,
    StoredArray(<< <<"1">>, <<"3">> >>),
    StoredArray(<< <<"2">>, <<"4">>, <<"5">>, <<"6">>, <<"7">>, <<"8">>,
                   <<"9">>, <<"0">> >>) }

\* texts typed into the search box: none, part of two names, part of one
\* name and an id, an id only, and a text that matches nothing
Queries == { <<>>, <<"b">>, <<"2">>, <<"1">>, <<"x">> }

AppInit ==
  /\ interpretations = <<>>
  /\ assessments = <<>>
  /\ original = <<>>
  /\ audienceUsed = "none"
  /\ pc = "fetching"
  /\ call = NoCall
  /\ allRetrievedEntries = <<>>
  /\ report = NoReport
  /\ latestAssessment = [retrieval |-> 0, assembly |-> 0]
  /\ firstReport = NoReport
  /\ rawData = <<>>
  /\ data = <<>>
  /\ students = <<>>
  /\ insights = <<>>
  /\ panelAssessments = NoPanel
  /\ memo = NoMemo
  /\ loading = TRUE
  /\ error = Null
  /\ selectedStudent = Null
  /\ storage \in StoredItems
  /\ recentIds = <<>>
  /\ isModalOpen = FALSE
  /\ query = <<>>
  /\ isOpen = FALSE
  /\ highlightedIndex = 0

\* what the actions of the app leave alone
restVars == <<interpretations, assessments, original, audienceUsed,
              allRetrievedEntries, report, latestAssessment, firstReport,
              insights, memoVars>>

\* the effect of App that loads the sheet, to its end: the request fails, or
\* the parser calls error, or it calls complete with the rows of the body;
\* a 'not found' response resolves like any other
FetchCSV ==
  /\ pc = "fetching"
  /\ \/ /\ call' = [fn |-> "fetch", response |-> "rejected", parse |-> "none"]
        /\ error' = [k |-> "str", v |-> "Failed to load CSV file. Make sure the file exists in the public folder."]
        /\ loading' = FALSE
        /\ pc' = "failed"
        /\ UNCHANGED <<rawData, data, students, selectedStudent>>
     \/ /\ \E response \in {"ok", "not found"} :
             call' = [fn |-> "fetch", response |-> response, parse |-> "error"]
        /\ error' = [k |-> "str", v |-> "Failed to parse CSV file."]
        /\ loading' = FALSE
        /\ pc' = "failed"
        /\ UNCHANGED <<rawData, data, students, selectedStudent>>
     \/ /\ \E response \in {"ok", "not found"} :
             /\ call' = [fn |-> "fetch", response |-> response,
                         parse |-> "complete"]
             /\ \E rows \in (IF response = "ok" THEN Sheets ELSE {NotFoundPage}) :
                  complete(rows)
        /\ pc' = "loaded"
  /\ UNCHANGED <<restVars, switcherVars>>

\* App renders the dashboard: StudentSwitcher and its search box are
\* mounted and their effects run
MountSwitcher ==
  /\ pc = "loaded"
  /\ rendered = "dashboard"
  /\ recentIds' = selectedEffect(loadRecentStudentIds(storage), selectedStudent)
  /\ storage' =
       IF selectedEffect(loadRecentStudentIds(storage), selectedStudent)
            = loadRecentStudentIds(storage)
       THEN storage
       ELSE StoredArray(selectedEffect(loadRecentStudentIds(storage),
                                       selectedStudent))
  /\ isModalOpen' = FALSE
  /\ query' = initialisedQuery(<<>>, selectedStudent)
  /\ isOpen' = FALSE
  /\ highlightedIndex' = settledIndex(students, <<>>, 0, selectedStudent)
  /\ call' = [fn |-> "mount"]
  /\ pc' = "ready"
  /\ UNCHANGED <<restVars, rawData, data, students, appVars>>

\* handleSelectStudent, handleStudentChange of App and the effect on
\* selectedStudent that follows; without a selected student App renders no
\* dashboard and the switcher is gone
handleSelectStudent(studentId) ==
  /\ selectedStudent' = find(students, studentId)
  /\ recentIds' = selectedEffect(nextRecentIds(recentIds, studentId),
                                 find(students, studentId))
  /\ storage' = StoredArray(selectedEffect(nextRecentIds(recentIds, studentId),
                                           find(students, studentId)))
  /\ pc' = IF Falsy(find(students, studentId)) THEN "loaded" ELSE "ready"

\* handleInputChange
HandleInputChange ==
  /\ pc = "ready"
  /\ \E value \in Queries :
       /\ query' = initialisedQuery(value, selectedStudent)
       /\ highlightedIndex' =
            settledIndex(students, value, highlightedIndex, selectedStudent)
       /\ call' = [fn |-> "change", value |-> value]
  /\ isOpen' = TRUE
  /\ UNCHANGED <<restVars, rawData, data, students, appVars, storage, recentIds,
                 isModalOpen, pc>>

\* handleKeyDown for ArrowDown
ArrowDown ==
  /\ pc = "ready"
  /\ LET length == Len(filtered(students, query))
         next == IF ~isOpen \/ length = 0 THEN highlightedIndex
                 ELSE (highlightedIndex + 1) % length
     IN /\ isOpen' = TRUE
        /\ highlightedIndex' = correctedIndex(next, length)
        /\ call' = [fn |-> "ArrowDown", wasOpen |-> isOpen, length |-> length,
                    prev |-> highlightedIndex]
  /\ UNCHANGED <<restVars, rawData, data, students, appVars, storage, recentIds,
                 isModalOpen, query, pc>>

\* handleKeyDown for ArrowUp
ArrowUp ==
  /\ pc = "ready"
  /\ LET length == Len(filtered(students, query))
         next == IF ~isOpen \/ length = 0 THEN highlightedIndex
                 ELSE IF highlightedIndex <= 0 THEN length - 1
                 ELSE highlightedIndex - 1
     IN /\ isOpen' = TRUE
        /\ highlightedIndex' = correctedIndex(next, length)
        /\ call' = [fn |-> "ArrowUp", wasOpen |-> isOpen, length |-> length,
                    prev |-> highlightedIndex]
  /\ UNCHANGED <<restVars, rawData, data, students, appVars, storage, recentIds,
                 isModalOpen, query, pc>>

\* handleKeyDown for Enter: filtered[highlightedIndex] || filtered[0] ||
\* selectedStudent
Enter ==
  /\ pc = "ready"
  /\ LET list == filtered(students, query)
         student == IF highlightedIndex >= 0 /\ highlightedIndex < Len(list)
                    THEN list[highlightedIndex + 1]
                    ELSE IF Len(list) > 0 THEN list[1]
                    ELSE selectedStudent.v
     IN /\ handleSelectStudent(student.id)
        /\ query' = initialisedQuery(student.name, find(students, student.id))
        /\ highlightedIndex' = settledIndex(students, student.name, highlightedIndex,
                                            find(students, student.id))
        /\ call' = [fn |-> "Enter",
                    filtered |-> [i \in 1..Len(list) |-> list[i].id],
                    prev |-> highlightedIndex,
                    selectedStudent |-> selectedStudent.v.id,
                    onSelect |-> student.id]
  /\ isOpen' = FALSE
  /\ UNCHANGED <<restVars, rawData, data, students, loading, error, isModalOpen>>

\* handleKeyDown for Escape, and a click outside the search box
CloseList ==
  /\ pc = "ready"
  /\ isOpen' = FALSE
  /\ call' = [fn |-> "Escape"]
  /\ UNCHANGED <<restVars, rawData, data, students, appVars, storage, recentIds,
                 isModalOpen, query, highlightedIndex, pc>>

\* handleOptionClick on an option of the open list
ClickOption ==
  /\ pc = "ready"
  /\ isOpen
  /\ \E i \in 1..Len(filtered(students, query)) :
       LET student == filtered(students, query)[i]
       IN /\ handleSelectStudent(student.id)
          /\ query' = initialisedQuery(student.name, find(students, student.id))
          /\ highlightedIndex' = settledIndex(students, student.name, highlightedIndex,
                                              find(students, student.id))
          /\ call' = [fn |-> "option", onSelect |-> student.id]
  /\ isOpen' = FALSE
  /\ UNCHANGED <<restVars, rawData, data, students, loading, error, isModalOpen>>

\* a click on a recent pill
ClickRecent ==
  /\ pc = "ready"
  /\ \E i \in 1..Len(recentStudents(students, recentIds, <<>>)) :
       /\ handleSelectStudent(recentStudents(students, recentIds, <<>>)[i].id)
       /\ call' = [fn |-> "recent",
                   onSelect |-> recentStudents(students, recentIds, <<>>)[i].id]
  /\ UNCHANGED <<restVars, rawData, data, students, loading, error, isModalOpen,
                 query, isOpen, highlightedIndex>>

\* 'Browse all students' opens the modal; onClose closes it
ToggleModal ==
  /\ pc = "ready"
  /\ isModalOpen' = ~isModalOpen
  /\ call' = [fn |-> "modal"]
  /\ UNCHANGED <<restVars, rawData, data, students, appVars, storage, recentIds,
                 query, isOpen, highlightedIndex, pc>>

\* a click on a card of the modal
ClickCard ==
  /\ pc = "ready"
  /\ isModalOpen
  /\ \E i \in 1..Len(students) :
       /\ handleSelectStudent(students[i].id)
       /\ call' = [fn |-> "card", onSelect |-> students[i].id]
  /\ isModalOpen' = FALSE
  /\ UNCHANGED <<restVars, rawData, data, students, loading, error, query, isOpen,
                 highlightedIndex>>

AppNext ==
  \/ FetchCSV
  \/ MountSwitcher
  \/ HandleInputChange
  \/ ArrowDown
  \/ ArrowUp
  \/ Enter
  \/ CloseList
  \/ ClickOption
  \/ ClickRecent
  \/ ToggleModal
  \/ ClickCard

AppSpec == AppInit /\ [][AppNext]_vars

(* ------------------------------ properties ----------------------------- *)

\* C1: for every rule table, test name, abbreviation, audience and every
\* non-null numeric standard score, retrieveTestInterpretations returns
\* exactly the rules whose test type or abbreviation is the requested one,
\* whose audience is the requested one, that are no 'Composite Comparison'
\* rule and whose score_range contains the z-value of the score (a present
\* min_z / max_z is inclusive, an absent one does not constrain).
C1_TestMatchesExactly ==
  (call.fn = "retrieveTestInterpretations" /\ call.standardScore.k = "num") =>
    LET z == call.standardScore.v - NORMATIVE_PARAMS.standard.mean
        within(r) == /\ r.has_range
                     /\ (r.min_z.k = "num" => z >= r.min_z.v)
                     /\ (r.max_z.k = "num" => z <= r.max_z.v)
        expected == { i \in 1..Len(interpretations) :
                        LET r == interpretations[i]
                        IN /\ \/ r.test_type = call.testName
                              \/ r.test_abbreviation = call.testAbbreviation
                           /\ r.audience = call.audience
                           /\ r.test_type # "Composite Comparison"
                           /\ within(r) }
    IN { call.result[i].id : i \in 1..Len(call.result) } = expected

\* C2: every rule returned by retrieveTestInterpretations,
\* retrieveCompositeComparisons and retrieveAllInterpretations has the
\* requested audience.
C2_AudienceRespected ==
  /\ call.fn # "none" =>
       \A i \in 1..Len(call.result) : call.result[i].audience = call.audience
  /\ \A i \in 1..Len(allRetrievedEntries) :
       allRetrievedEntries[i].audience = audienceUsed

\* C2 witness: a family request returned rules from a table that also holds
\* a clinician rule.
C2_Witness ==
  /\ pc = "retrieved"
  /\ audienceUsed = "family"
  /\ allRetrievedEntries # <<>>
  /\ \E i \in 1..Len(interpretations) : interpretations[i].audience = "clinician"

\* C3: for non-null receptive and expressive z-scores,
\* retrieveCompositeComparisons returns exactly the 'Composite Comparison'
\* rules of the requested audience whose score_range, read as min_z_diff /
\* max_z_diff, contains receptiveZ - expressiveZ (inclusive where a bound is
\* present, unconstrained where it is absent).
C3_ComparisonMatchesExactly ==
  (/\ call.fn = "retrieveCompositeComparisons"
   /\ call.receptiveZScore.k # "null"
   /\ call.expressiveZScore.k # "null") =>
    LET isNumber == call.receptiveZScore.k = "num" /\ call.expressiveZScore.k = "num"
        diff == call.receptiveZScore.v - call.expressiveZScore.v
        within(r) == /\ r.has_range
                     /\ isNumber
                     /\ (r.min_z_diff.k = "num" => diff >= r.min_z_diff.v)
                     /\ (r.max_z_diff.k = "num" => diff <= r.max_z_diff.v)
        expected == { i \in 1..Len(interpretations) :
                        LET r == interpretations[i]
                        IN /\ r.test_type = "Composite Comparison"
                           /\ r.audience = call.audience
                           /\ within(r) }
    IN { call.result[i].id : i \in 1..Len(call.result) } = expected

\* C3 witness: a comparison query whose difference sits exactly on a rule's
\* bound returned that rule.
C3_Witness ==
  /\ call.fn = "retrieveCompositeComparisons"
  /\ call.receptiveZScore.k = "num"
  /\ call.expressiveZScore.k = "num"
  /\ \E i \in 1..Len(call.result) :
       \/ /\ call.result[i].min_z_diff.k = "num"
          /\ call.result[i].min_z_diff.v
               = call.receptiveZScore.v - call.expressiveZScore.v
       \/ /\ call.result[i].max_z_diff.k = "num"
          /\ call.result[i].max_z_diff.v
               = call.receptiveZScore.v - call.expressiveZScore.v

\* C4: the result of retrieveTestInterpretations and of
\* retrieveCompositeComparisons is a subsequence of the rule table: its
\* rules appear in table order, and every rule of the table that matches the
\* query is present (nothing is dropped by ranking or truncation).
C4_SubsequenceOfTable ==
  call.fn # "none" =>
    LET n == Len(call.result)
        zNum == call.fn = "retrieveTestInterpretations"
                /\ call.standardScore.k = "num"
        z == call.standardScore.v - NORMATIVE_PARAMS.standard.mean
        dNum == call.fn = "retrieveCompositeComparisons"
                /\ call.receptiveZScore.k = "num"
                /\ call.expressiveZScore.k = "num"
        diff == call.receptiveZScore.v - call.expressiveZScore.v
        matching(r) ==
          /\ r.audience = call.audience
          /\ r.has_range
          /\ IF call.fn = "retrieveTestInterpretations"
             THEN /\ zNum
                  /\ r.test_type # "Composite Comparison"
                  /\ \/ r.test_type = call.testName
                     \/ r.test_abbreviation = call.testAbbreviation
                  /\ (r.min_z.k = "num" => z >= r.min_z.v)
                  /\ (r.max_z.k = "num" => z <= r.max_z.v)
             ELSE /\ dNum
                  /\ r.test_type = "Composite Comparison"
                  /\ (r.min_z_diff.k = "num" => diff >= r.min_z_diff.v)
                  /\ (r.max_z_diff.k = "num" => diff <= r.max_z_diff.v)
    IN /\ \A i \in 1..n :
            /\ call.result[i].id \in 1..Len(interpretations)
            /\ call.result[i] = interpretations[call.result[i].id]
       /\ \A i \in 1..n : \A j \in 1..n :
            i < j => call.result[i].id < call.result[j].id
       /\ \A k \in 1..Len(interpretations) :
            matching(interpretations[k]) =>
              \E i \in 1..n : call.result[i].id = k

\* C5: retrieveTestInterpretations returns the empty list for a null,
\* undefined or NaN standard score, and retrieveCompositeComparisons does so
\* when either z-score is null, undefined or NaN.
C5_NotComputableIsEmpty ==
  /\ (/\ call.fn = "retrieveTestInterpretations"
      /\ call.standardScore.k \in {"null", "undefined", "nan"})
       => call.result = <<>>
  /\ (/\ call.fn = "retrieveCompositeComparisons"
      /\ \/ call.receptiveZScore.k \in {"null", "undefined", "nan"}
         \/ call.expressiveZScore.k \in {"null", "undefined", "nan"})
       => call.result = <<>>

\* C5 witness: a comparison query with an undefined or NaN z-score against a
\* table that holds a comparison rule for the requested audience.
C5_Witness ==
  /\ call.fn = "retrieveCompositeComparisons"
  /\ call.receptiveZScore.k = "num"
  /\ call.expressiveZScore.k \in {"undefined", "nan"}
  /\ \E i \in 1..Len(interpretations) :
       /\ interpretations[i].test_type = "Composite Comparison"
       /\ interpretations[i].audience = call.audience
       /\ interpretations[i].has_range

\* the assessment the specification calls the latest one of an array: the
\* first, in the array's order, of those with the maximum date
LatestIn(arr) ==
  arr[CHOOSE i \in 1..Len(arr) :
        /\ \A j \in 1..Len(arr) : arr[j].date <= arr[i].date
        /\ \A j \in 1..(i - 1) : arr[j].date < arr[i].date]

\* C6: in every report, testInsights holds at most one entry per test code:
\* no two entries have the same testAbbreviation.
C6_OneInsightPerCode ==
  \A i \in 1..Len(report.testInsights) : \A j \in 1..Len(report.testInsights) :
    i # j =>
      report.testInsights[i].testAbbreviation # report.testInsights[j].testAbbreviation

\* C6 witness: a report in which a second rule was added to the entry of a
\* test code that already had one.
C6_Witness ==
  /\ pc = "assembled"
  /\ \E i \in 1..Len(report.testInsights) : report.testInsights[i].retrievedCount >= 2

\* C7: for every test code of the latest assessment whose standard score is
\* non-null (the score 0 included) and that at least one rule of the table
\* matches, the report holds a testInsights entry for that code carrying
\* that score.
C7_MatchedCodeHasInsight ==
  (pc = "assembled" /\ original # <<>>) =>
    \A code \in DOMAIN TEST_NAMES :
      LET score == LatestIn(original).tests[code]
          z == score.v - NORMATIVE_PARAMS.standard.mean
          matches(r) == /\ \/ r.test_type = TEST_NAMES[code]
                           \/ r.test_abbreviation = code
                        /\ r.audience = audienceUsed
                        /\ r.test_type # "Composite Comparison"
                        /\ r.has_range
                        /\ (r.min_z.k = "num" => z >= r.min_z.v)
                        /\ (r.max_z.k = "num" => z <= r.max_z.v)
      IN (/\ score.k = "num"
          /\ \E k \in 1..Len(interpretations) : matches(interpretations[k]))
         => \E i \in 1..Len(report.testInsights) :
              /\ report.testInsights[i].testAbbreviation = code
              /\ report.testInsights[i].score = score

\* C8: in every report, comparisons has at most one element, and it is
\* non-empty only if the latest assessment has both an RLI and an ELI
\* standard score and the comparison matcher returned at least one rule.
C8_AtMostOneComparison ==
  /\ Len(report.comparisons) <= 1
  /\ report.comparisons # <<>> =>
       /\ original # <<>>
       /\ LET rli == LatestIn(original).tests["RLI"]
              eli == LatestIn(original).tests["ELI"]
          IN /\ rli.k = "num"
             /\ eli.k = "num"
             /\ retrieveCompositeComparisons(
                  Num(rli.v - NORMATIVE_PARAMS.standard.mean),
                  Num(eli.v - NORMATIVE_PARAMS.standard.mean),
                  audienceUsed) # <<>>

\* C8 witness: a report whose comparison was assembled from two matched
\* comparison rules.
C8_Witness ==
  /\ pc = "assembled"
  /\ Len(report.comparisons) = 1
  /\ report.comparisons[1].retrievedCount = 2

\* C9: in every report, totalRetrieved equals the sum of retrievedCount over
\* all testInsights entries plus the retrievedCount of the comparisons entry
\* (0 when comparisons is empty).
C9_TotalIsSumOfCounts ==
  LET shown == UNION { { <<i, n>> : n \in 1..report.testInsights[i].retrievedCount } :
                       i \in 1..Len(report.testInsights) }
      compared == IF report.comparisons = <<>> THEN 0
                  ELSE report.comparisons[1].retrievedCount
  IN report.totalRetrieved = Cardinality(shown) + compared

\* C10: the latest assessment used by retrieveAllInterpretations and by
\* assembleCompleteReport is one with the maximum date, and among several
\* with the maximum date the one that comes first in the caller's order.
C10_LatestIsFirstMaximum ==
  /\ (pc \in {"retrieved", "assembled"} /\ original # <<>>) =>
       latestAssessment.retrieval = LatestIn(original).id
  /\ (pc = "assembled" /\ original # <<>> /\ allRetrievedEntries # <<>>) =>
       latestAssessment.assembly = LatestIn(original).id

\* C10 witness: a report assembled from an array of two different records
\* that share the maximum date, using the first of them.
C10_Witness ==
  /\ pc = "assembled"
  /\ allRetrievedEntries # <<>>
  /\ Len(original) = 2
  /\ original[1].date = original[2].date
  /\ original[1].tests # original[2].tests
  /\ latestAssessment.assembly = 1

\* C11: deriving a report mutates nothing in place: after
\* retrieveAllInterpretations and assembleCompleteReport have run, the
\* assessments array passed in holds the same elements in the same order as
\* before the call.
C11_InputOrderKept ==
  pc \in {"retrieved", "assembled"} => assessments = original

\* C12: running retrieveAllInterpretations and assembleCompleteReport a
\* second time on the array the first run was applied to, with the same
\* audience, yields a report with the same testInsights, comparisons and
\* totalRetrieved.
C12_SecondRunSameReport ==
  (pc = "assembled" /\ firstReport # NoReport) =>
    /\ report.testInsights = firstReport.testInsights
    /\ report.comparisons = firstReport.comparisons
    /\ report.totalRetrieved = firstReport.totalRetrieved

\* C12 witness: a second report with insights, made from an array of two
\* records of one date that the first run was applied to.
C12_Witness ==
  /\ pc = "assembled"
  /\ firstReport # NoReport
  /\ report.testInsights # <<>>
  /\ Len(original) = 2
  /\ original[1].date = original[2].date
  /\ original[1].tests # original[2].tests

\* C13: with zero assessments retrieveAllInterpretations returns the empty
\* list and assembleCompleteReport returns a report with empty testInsights,
\* empty comparisons and totalRetrieved = 0.
C13_EmptyInputEmptyReport ==
  (pc \in {"retrieved", "assembled"} /\ original = <<>>) =>
    /\ allRetrievedEntries = <<>>
    /\ pc = "assembled" =>
         /\ report.testInsights = <<>>
         /\ report.comparisons = <<>>
         /\ report.totalRetrieved = 0

\* C13 witness: a report assembled for an empty array while the table holds
\* rules.
C13_Witness ==
  /\ pc = "assembled"
  /\ original = <<>>
  /\ interpretations # <<>>
  /\ report.totalRetrieved = 0

\* C14: parseNumber maps the field values '', '#N/A' and '-1' to null, never
\* to the number -1 or to NaN, and maps the field value '0' to the number 0.
C14_SentinelsAreAbsent ==
  call.fn = "parseNumber" =>
    /\ call.result.k \in {"null", "num"}
    /\ (/\ call.value.k = "str"
        /\ call.value.v \in {<<>>, <<"#", "N", "/", "A">>, <<"-", "1">>})
         => call.result = Null
    /\ (call.value.k = "str" /\ call.value.v = <<"0">>) => call.result = Num(0)

\* C14 witness: the field value '-1' was parsed to null.
C14_Witness ==
  /\ call.fn = "parseNumber"
  /\ call.value.k = "str"
  /\ call.value.v = <<"-", "1">>
  /\ call.result.k = "null"

\* C15: in the output of processCSVData every record has at least one entry
\* in tests, and every entry has a non-null standardScore or a non-null
\* scaledScore.
C15_RecordsHaveScoredTests ==
  \A i \in 1..Len(data) :
    /\ Len(data[i].tests) >= 1
    /\ \A t \in 1..Len(data[i].tests) :
         \/ data[i].tests[t].standardScore.k = "num"
         \/ data[i].tests[t].scaledScore.k = "num"

\* C15 witness: a load that kept a record with an entry that has a scaled
\* score only, from a sheet with a row that has an id and no score.
C15_Witness ==
  /\ pc = "loaded"
  /\ \E i \in 1..Len(data) : \E t \in 1..Len(data[i].tests) :
       data[i].tests[t].standardScore.k = "null"
  /\ \E r \in 1..Len(rawData) :
       /\ ~skipsRow(rawData[r])
       /\ extractTests(rawData[r], 1) = <<>>

\* C16: processCSVData emits no record for a row whose student id is
\* missing, empty, blank or '#N/A', and exactly one record, in input order,
\* for every other row that has at least one test, whatever its date and
\* scores are.
C16_ExactlyRowsWithIdAndTest ==
  pc = "loaded" =>
    LET noId(row) == \/ row.LT_Id.k = "undefined"
                     \/ \A c \in 1..Len(row.LT_Id.v) : row.LT_Id.v[c] = " "
                     \/ row.LT_Id.v = <<"#", "N", "/", "A">>
        scored(cell) == parseNumber(cell).k = "num"
        hasTest(row) == \E code \in DOMAIN row.cells :
                          \/ scored(row.cells[code].StandardScore)
                          \/ scored(row.cells[code].ScaledScore)
        kept == { r \in 1..Len(rawData) :
                    ~noId(rawData[r]) /\ hasTest(rawData[r]) }
    IN /\ { data[i].row : i \in 1..Len(data) } = kept
       /\ Len(data) = Cardinality(kept)
       /\ \A i \in 1..Len(data) : \A j \in 1..Len(data) :
            i < j => data[i].row < data[j].row

\* C16 witness: a sheet of three rows, the first without id, the second
\* with a malformed date, of which the last two were kept.
C16_Witness ==
  /\ pc = "loaded"
  /\ Len(rawData) = 3
  /\ skipsRow(rawData[1])
  /\ rawData[2].AssessmentDate.k = "str"
  /\ rawData[2].AssessmentDate.v # <<>>
  /\ parseDate(rawData[2].AssessmentDate).k = "null"
  /\ Len(data) = 2
  /\ data[1].row = 2
  /\ data[2].row = 3

\* C17: getUniqueStudents returns exactly one {id, name} per distinct
\* studentId of the records, with the name of the first record that carries
\* the id, and the list is sorted by name.
C17_OneStudentPerId ==
  pc = "loaded" =>
    /\ { students[i].id : i \in 1..Len(students) }
         = { data[r].studentId : r \in 1..Len(data) }
    /\ \A i \in 1..Len(students) : \A j \in 1..Len(students) :
         /\ (i # j => students[i].id # students[j].id)
         /\ (i < j => localeCompare(students[i].name, students[j].name) <= 0)
    /\ \A i \in 1..Len(students) :
         LET first == CHOOSE r \in 1..Len(data) :
                        /\ data[r].studentId = students[i].id
                        /\ \A q \in 1..(r - 1) : data[q].studentId # students[i].id
         IN students[i].name = data[first].studentName

\* C17 witness: three records of two students, the first two for one id
\* under different names, and the list starts with the student met last.
C17_Witness ==
  /\ pc = "loaded"
  /\ Len(data) = 3
  /\ data[1].studentId = data[2].studentId
  /\ data[1].studentName # data[2].studentName
  /\ Len(students) = 2
  /\ students[1].id = data[3].studentId

\* the five band labels, from the lowest to the highest
BandLabels ==
  <<"Significantly Below Average", "Below Average", "Average",
    "Above Average", "Significantly Above Average">>

\* C18: for a numeric standard score s the band of calculateZScore(s) is one
\* of the five labels, the one chosen by z <= -2, z <= -1, z <= 1, z <= 2,
\* else, z being (s - 100) / 15, so that 70 is 'Significantly Below
\* Average', 85 is 'Below Average' and 100 is 'Average'; and a higher score
\* never gets a lower band.
C18_BandByThresholds ==
  call.fn = "getNormativeBand" =>
    LET mean == NORMATIVE_PARAMS.standard.mean
        sd == NORMATIVE_PARAMS.standard.sd
        expected(s) == IF s - mean <= -2 * sd THEN BandLabels[1]
                       ELSE IF s - mean <= -1 * sd THEN BandLabels[2]
                       ELSE IF s - mean <= 1 * sd THEN BandLabels[3]
                       ELSE IF s - mean <= 2 * sd THEN BandLabels[4]
                       ELSE BandLabels[5]
        rank(label) == CHOOSE i \in 1..Len(BandLabels) : BandLabels[i] = label
    IN /\ \E i \in 1..Len(BandLabels) : BandLabels[i] = call.band
       /\ \E i \in 1..Len(BandLabels) : BandLabels[i] = call.otherBand
       /\ call.band = expected(call.score)
       /\ call.score = 70 => call.band = "Significantly Below Average"
       /\ call.score = 85 => call.band = "Below Average"
       /\ call.score = 100 => call.band = "Average"
       /\ call.score <= call.other => rank(call.band) <= rank(call.otherBand)

\* C18 witness: the scores 85 and 86 were given the bands 'Below Average'
\* and 'Average'.
C18_Witness ==
  /\ call.fn = "getNormativeBand"
  /\ call.score = 85
  /\ call.band = "Below Average"
  /\ call.other = 86
  /\ call.otherBand = "Average"

\* the items of the insight of the given type, none if it is not in the list
itemsOfType(type) ==
  LET found == { i \in 1..Len(insights) : insights[i].type = type }
  IN IF found = {} THEN <<>> ELSE insights[CHOOSE i \in found : TRUE].items

C20_ComparisonIffTenApart ==
  (pc = "shown" /\ original # <<>>) =>
    LET tests == LatestIn(original).tests
        receptive == scoresOf(tests, receptiveTests)
        expressive == scoresOf(tests, expressiveTests)
        nr == Len(receptive)
        ne == Len(expressive)
        cross == sum(receptive) * ne - sum(expressive) * nr
        apart == IF cross < 0 THEN 0 - cross ELSE cross
    IN (\E i \in 1..Len(insights) : insights[i].type = "receptive-expressive")
         <=> (nr >= 1 /\ ne >= 1 /\ apart >= 10 * nr * ne)

\* the progress items that the first record e and the last record l call
\* for: one for each test code with a numeric standard score in both whose
\* scores are 5 or more apart
C21_Expected(e, l) ==
  { [test |-> e.tests[i].testName,
     direction |-> IF l.tests[j].standardScore.v > e.tests[i].standardScore.v
                   THEN "improved" ELSE "declined",
     changeStr |-> IF l.tests[j].standardScore.v > e.tests[i].standardScore.v
                   THEN l.tests[j].standardScore.v - e.tests[i].standardScore.v
                   ELSE e.tests[i].standardScore.v - l.tests[j].standardScore.v,
     firstScore |-> e.tests[i].standardScore,
     lastScore |-> l.tests[j].standardScore] :
      <<i, j>> \in { p \in (1..Len(e.tests)) \X (1..Len(l.tests)) :
                       /\ e.tests[p[1]].key = l.tests[p[2]].key
                       /\ e.tests[p[1]].standardScore.k = "num"
                       /\ l.tests[p[2]].standardScore.k = "num"
                       /\ \/ l.tests[p[2]].standardScore.v
                               - e.tests[p[1]].standardScore.v >= 5
                          \/ e.tests[p[1]].standardScore.v
                               - l.tests[p[2]].standardScore.v >= 5 } }

\* C21: the panel lists a progress item for a test code if and only if the
\* student has two assessments or more, the earliest and the latest of them
\* both hold a non-null standard score for the code and the two scores are 5
\* or more apart; the item reads 'improved' for a positive change and
\* 'declined' otherwise, by the absolute change.
C21_ProgressIffFiveApart ==
  pc = "shown" =>
    LET items == itemsOfType("progress")
        n == Len(original)
    IN IF n < 2 THEN items = <<>>
       ELSE \E e \in 1..n, l \in 1..n :
              /\ e # l
              /\ \A k \in 1..n : original[e].date <= original[k].date
              /\ \A k \in 1..n : original[k].date <= original[l].date
              /\ { items[i] : i \in 1..Len(items) }
                   = C21_Expected(original[e], original[l])
              /\ Len(items) = Cardinality(C21_Expected(original[e], original[l]))

\* C21 witness: the score of BC went from 80 to 90 and the Expressive
\* Language Index from 95 to 98; the panel lists the one item 'improved by
\* 10 points'.
C21_Witness ==
  /\ pc = "shown"
  /\ Len(original) = 2
  /\ \E i \in 1..2, j \in 1..2 :
       /\ original[i].date < original[j].date
       /\ original[i].tests = << TestResult("SC", Num(90)), TestResult("BC", Num(80)),
                                 TestResult("ELI", Num(95)) >>
       /\ original[j].tests = << TestResult("BC", Num(90)), TestResult("ELI", Num(98)) >>
  /\ itemsOfType("progress")
       = << [test |-> testNameOf("BC"), direction |-> "improved",
             changeStr |-> 10, firstScore |-> Num(80), lastScore |-> Num(90)] >>

\* C22: every category in the list of the panel has one item or more: a
\* category that nothing triggers is left out of the list.
C22_NoEmptyCategory ==
  pc = "shown" => \A i \in 1..Len(insights) : Len(insights[i].items) > 0

\* C22 witness: the four categories are in the list together.
C22_Witness ==
  /\ pc = "shown"
  /\ Len(insights) = 4
  /\ { insights[i].type : i \in 1..4 }
       = {"below-average", "above-average", "receptive-expressive", "progress"}

\* C26: within one run of the memo of the panel over two assessments or
\* more, the record taken as most recent for the lists of tests and for the
\* comparison of averages is the record taken as latest for progress, and
\* the record taken as earliest is another record whose date is not later,
\* also when several assessments have the same date.
C26_SameLatestRecord ==
  (pc = "shown" /\ Len(original) >= 2) =>
    /\ panelAssessments.latest = panelAssessments.lastAssessment
    /\ panelAssessments.firstAssessment # panelAssessments.latest
    /\ original[panelAssessments.firstAssessment].date
         <= original[panelAssessments.latest].date

\* the types of the insights of a list
C25_Categories(list) == { list[i].type : i \in 1..Len(list) }

\* C25: the insight list that App hands to the text export has the
\* categories of the list that the insights panel computes for the same
\* assessments.
C25_ExportHasPanelCategories ==
  pc = "rendered" => C25_Categories(memo.insights) = C25_Categories(insights)

\* C27: retrieveAllInterpretations returns each rule of the table at most
\* once, whatever the table and the assessments: no rule is retrieved for
\* two test codes of the assessment.
C27_EachRuleOnce ==
  pc \in {"retrieved", "assembled"} =>
    \A i \in 1..Len(allRetrievedEntries), j \in 1..Len(allRetrievedEntries) :
      i # j => allRetrievedEntries[i].id # allRetrievedEntries[j].id

\* C28: for every numeric standard score the label of getScoreInterpretation
\* is the label of getNormativeBand for the z-score that calculateZScore
\* gives.
C28_SameLabels ==
  (call.fn = "getScoreInterpretation" /\ call.score.k = "num") =>
    call.label = call.band

\* C28 witness: the score 70, two standard deviations below the mean, is
\* 'Significantly Below Average' for both.
C28_Witness ==
  /\ call.fn = "getScoreInterpretation"
  /\ call.score = Num(70)
  /\ call.label = "Significantly Below Average"
  /\ call.band = "Significantly Below Average"

\* the recent ids of a mounted switcher are eight at most and pairwise
\* different
C23_Shape ==
  pc = "ready" =>
    /\ Len(recentIds) <= 8
    /\ \A i \in 1..Len(recentIds), j \in 1..Len(recentIds) :
         i # j => recentIds[i] # recentIds[j]

\* a step that leaves the switcher mounted puts the id of the student
\* selected last first and keeps the other ids in the order they had, the
\* loaded list being the one before the first step
C23_Order ==
  pc' = "ready" =>
    LET prev == IF pc = "ready" THEN recentIds ELSE loadRecentStudentIds(storage)
        other(id) == id # selectedStudent'.v.id
        others == SelectSeq(prev, other)
    IN /\ recentIds' # <<>>
       /\ recentIds'[1] = selectedStudent'.v.id
       /\ Len(recentIds') = (IF Len(others) < 7 THEN Len(others) ELSE 7) + 1
       /\ Tail(recentIds') = SubSeq(others, 1, Len(recentIds') - 1)

C24_FailedLoadShowsError ==
  (/\ call.fn = "fetch"
   /\ (call.response \in {"rejected", "not found"} \/ call.parse = "error")) =>
    /\ error.k = "str"
    /\ loading = FALSE
    /\ rendered = "error"

\* C29: after a load that found a student and any selections through the
\* dropdown, a recent pill or the modal, once the effects have run the
\* selected student is one of the students and its id is the first of the
\* recent ids.
C29_SelectedIsFirstRecent ==
  (pc = "ready" \/ call.fn \in {"Enter", "option", "recent", "card"}) =>
    /\ pc = "ready"
    /\ selectedStudent.k = "ref"
    /\ \E i \in 1..Len(students) : students[i] = selectedStudent.v
    /\ recentIds # <<>>
    /\ recentIds[1] = selectedStudent.v.id

\* C29 witness: the student with id 1 was selected by its recent pill and is
\* the second of three students.
C29_Witness ==
  /\ pc = "ready"
  /\ call.fn = "recent"
  /\ Len(students) = 3
  /\ students[2] = selectedStudent.v
  /\ recentIds[1] = <<"1">>
  /\ Len(recentIds) > 2

\* the highlighted index is -1 or an index of the filtered list
C30_InRange ==
  \/ highlightedIndex = -1
  \/ highlightedIndex >= 0 /\ highlightedIndex < Len(filtered(students, query))

\* Enter has selected the highlighted student, else the first of the
\* filtered list, else the selected student
C30_EnterSelects ==
  call.fn = "Enter" =>
    call.onSelect =
      IF call.prev >= 0 /\ call.prev < Len(call.filtered)
      THEN call.filtered[call.prev + 1]
      ELSE IF Len(call.filtered) > 0 THEN call.filtered[1]
      ELSE call.selectedStudent

\* C30 as stated: in StudentSearchDropdown, once the effects have run, the
\* highlighted index is -1 or an index of the filtered list; on a list that
\* is not empty ArrowDown and ArrowUp move it cyclically within the list;
\* Enter selects the highlighted student, else the first filtered one, else
\* the selected one.
C30_KeyboardNavigation ==
  pc = "ready" =>
    /\ C30_InRange
    /\ (call.fn = "ArrowDown" /\ call.length > 0) =>
         highlightedIndex = (call.prev + 1) % call.length
    /\ (call.fn = "ArrowUp" /\ call.length > 0) =>
         highlightedIndex = (IF call.prev <= 0 THEN call.length - 1
                             ELSE call.prev - 1)
    /\ C30_EnterSelects

\* C30 amended: as C30 with the moves of ArrowDown and ArrowUp on an open
\* list; on a closed list either key opens the list and leaves the index.
C30_KeyboardNavigationWhenOpen ==
  pc = "ready" =>
    /\ C30_InRange
    /\ (call.fn = "ArrowDown" /\ call.length > 0) =>
         highlightedIndex = (IF call.wasOpen THEN (call.prev + 1) % call.length
                             ELSE call.prev)
    /\ (call.fn = "ArrowUp" /\ call.length > 0) =>
         highlightedIndex = (IF ~call.wasOpen THEN call.prev
                             ELSE IF call.prev <= 0 THEN call.length - 1
                             ELSE call.prev - 1)
    /\ (call.fn \in {"ArrowDown", "ArrowUp"}) => isOpen
    /\ C30_EnterSelects

\* C30 witness: ArrowUp on the open list of two students went from the
\* first to the last.
C30_Witness ==
  /\ pc = "ready"
  /\ call.fn = "ArrowUp"
  /\ call.wasOpen
  /\ call.length = 2
  /\ call.prev = 0
  /\ highlightedIndex = 1

====
